---- MODULE Spec2Model ----
(***************************************************************************)
(* A model of the research pipeline of value-investing-agents: the LLM     *)
(* gateway (src/models/llm_client.py over src/memory/cache.py), the five   *)
(* stage agents (src/agents), the LangGraph engine (src/graph/workflow.py) *)
(* and the batch loop of scripts/daily_run.py.                             *)
(*                                                                         *)
(* Texts are sequences of tokens; the empty sequence is Python's "".       *)
(* Numbers with one decimal are kept in tenths (7.0 is 70, 0.3 is 3).      *)
(***************************************************************************)
EXTENDS Integers, Sequences, FiniteSets, TLC

VARIABLES
    cache,      \* the Redis store behind CacheManager: key -> [data, ttl]
    gw,         \* the gateway call submitted last: its request and, once
                \* completed, what it returned and which requests it issued
    redisUp,    \* whether Redis answers during this daily run
    signals,    \* daily_run: the collected signals (enrichment writes to them)
    idx,        \* daily_run: how many signals the loop has taken up
    pc,         \* where the run of the current signal stands
    state,      \* the ResearchState of the current run
    locals,     \* results a stage holds before it returns its update, and
                \* the response the Synthesis stage got
    invoked,    \* the stages entered during the current run, in order
    calls,      \* the gateway calls and the fetches of fundamentals that the
                \* stages have made, in order, while research_signal runs
    ret,        \* what research_signal returned for the current signal
    insights,   \* daily_run: the insights collected so far
    outcomes,   \* per signal taken up: how its run ended and what it returned
    post        \* daily_run after the research loop: the ranker, the ranked
                \* and selected insights, and what was done with the store

gwVars == <<gw>>

runVars == <<redisUp, signals, idx, pc, state, locals, invoked, calls, ret,
             insights, outcomes, post>>

vars == <<cache, gw, redisUp, signals, idx, pc, state, locals, invoked, calls,
          ret, insights, outcomes, post>>

-----------------------------------------------------------------------------
(* Values *)

\* Optional values: Python's None, or a value.
NoneVal == [some |-> FALSE, val |-> << >>]

Some(v) == [some |-> TRUE, val |-> v]

\* Python truthiness of an optional text: None and "" are falsy.
Truthy(o) == o.some /\ o.val # << >>

\* What a call gives its caller: a text, or an exception.
Ok(t) == [kind |-> "ok", text |-> t]

Raise == [kind |-> "raise", text |-> << >>]

-----------------------------------------------------------------------------
(* src/memory/cache.py *)

\* json.dumps / json.loads of a cached value: the stored string is never
\* empty, whatever the value.
JsonDumps(v) == <<"json", v>>

JsonLoads(d) == d[2]

\* Mutant of CacheGet: the entry is given whether Redis answers or not.
CacheGetWhatever(c, key, up) ==
    IF key \in DOMAIN c /\ c[key].data # << >>
    THEN Some(JsonLoads(c[key].data))
    ELSE NoneVal

\* CacheManager.get: a Redis error (up = FALSE) is logged and gives None.
CacheGet(c, key, up) ==
    IF ~up THEN NoneVal
    ELSE IF key \in DOMAIN c /\ c[key].data # << >>
         THEN Some(JsonLoads(c[key].data))
         ELSE NoneVal

\* CacheManager.set: setex(key, ttl, dumps(value)); a Redis error is logged
\* and ignored.
CacheSet(c, key, value, ttl, up) ==
    IF ~up THEN c
    ELSE [k \in DOMAIN c \cup {key} |->
            IF k = key THEN [data |-> JsonDumps(value), ttl |-> ttl] ELSE c[k]]

-----------------------------------------------------------------------------
(* src/models/llm_client.py *)

QwenModel == "qwen/qwen-2.5-72b-instruct"

DeepseekModel == "deepseek/deepseek-chat"

\* stop_after_attempt(3), on call_deepseek and on call_qwen.
StopAfterAttempt == 3

\* ttl=86400 of both cache.set calls.
CacheTTL == 86400

\* The most upstream requests one call can issue: every call_qwen attempt
\* issues one fast request and a fallback call_deepseek of its own attempts.
MaxRequests == StopAfterAttempt * (1 + StopAfterAttempt)

\* _generate_cache_key: sha256 of the JSON of exactly these three fields
\* (taken as injective).
GenerateCacheKey(model, messages, temperature) ==
    <<"llm", model, messages, temperature>>

\* The upstream during one call: its first `fails` requests fail (transport
\* error, non-2xx, malformed body), the next one answers `text`.
Outcome(oracle, i) ==
    IF i <= oracle.fails THEN [ok |-> FALSE, text |-> << >>]
    ELSE [ok |-> TRUE, text |-> oracle.text]

\* max_tokens: int = 4000 of call_deepseek
DefaultMaxTokens == 4000

\* One execution of the body of call_deepseek; `out` is what the upstream
\* does with the request, if one is issued.
DeepseekBody(messages, model, temperature, max_tokens, use_cache, c, up, out) ==
    LET key    == GenerateCacheKey(model, messages, temperature)
        cached == IF use_cache THEN CacheGet(c, key, up) ELSE NoneVal
    IN  IF use_cache /\ Truthy(cached)
        THEN [ret |-> Ok(cached.val), cache |-> c, reqs |-> << >>]
        ELSE IF out.ok
        THEN [ret |-> Ok(out.text),
              cache |-> IF use_cache
                        THEN CacheSet(c, key, out.text, CacheTTL, up) ELSE c,
              reqs |-> << [tier |-> "deep", max_tokens |-> max_tokens,
                           ok |-> TRUE, text |-> out.text] >>]
        ELSE [ret |-> Raise, cache |-> c,
              reqs |-> << [tier |-> "deep", max_tokens |-> max_tokens,
                           ok |-> FALSE, text |-> << >>] >>]

\* Mutant of DeepseekMayRetry: one attempt more.
DeepseekMayRetryOneMore(n) == n < StopAfterAttempt + 1

\* tenacity on call_deepseek: another attempt unless this was the third.
DeepseekMayRetry(n) == n < StopAfterAttempt

RECURSIVE DeepseekRetry(_, _, _, _, _, _, _, _, _, _)
\* tenacity after attempt n of call_deepseek gave r: r is returned, or the
\* exception is raised for good, or the body runs again.
DeepseekAfter(r, n, messages, model, temperature, max_tokens, use_cache, up, oracle, log) ==
    IF r.ret.kind = "ok" \/ ~DeepseekMayRetry(n)
    THEN [ret |-> r.ret, cache |-> r.cache, log |-> log \o r.reqs]
    ELSE DeepseekRetry(n + 1, messages, model, temperature, max_tokens, use_cache,
                       r.cache, up, oracle, log \o r.reqs)

\* call_deepseek under @retry, from attempt n on. `log` holds the upstream
\* requests the whole gateway call has issued so far, each with its tier and
\* what the upstream answered.
DeepseekRetry(n, messages, model, temperature, max_tokens, use_cache, c, up, oracle, log) ==
    DeepseekAfter(DeepseekBody(messages, model, temperature, max_tokens,
                               use_cache, c, up, Outcome(oracle, Len(log) + 1)),
                  n, messages, model, temperature, max_tokens, use_cache, up,
                  oracle, log)

CallDeepseek(messages, model, temperature, max_tokens, use_cache, c, up, oracle, log) ==
    DeepseekRetry(1, messages, model, temperature, max_tokens, use_cache, c, up,
                  oracle, log)

\* The result of a call_deepseek as the result of the gateway call around it.
WithFallbacks(d, n) ==
    [ret |-> d.ret, cache |-> d.cache, log |-> d.log, fallbacks |-> n]

\* Mutant of QwenFallback: call_deepseek is called with its default use_cache.
QwenFallbackCached(messages, temperature, use_cache, c, up, oracle, log1) ==
    WithFallbacks(CallDeepseek(messages, DeepseekModel, temperature,
                               DefaultMaxTokens, TRUE, c, up, oracle, log1), 1)

\* The except block of call_qwen: call_deepseek with its default model and
\* max_tokens, the same messages, temperature and use_cache.
QwenFallback(messages, temperature, use_cache, c, up, oracle, log1) ==
    WithFallbacks(CallDeepseek(messages, DeepseekModel, temperature,
                               DefaultMaxTokens, use_cache, c, up, oracle, log1),
                  1)

\* One execution of the body of call_qwen. A failed request falls back to
\* call_deepseek inside this very attempt.
QwenBody(messages, model, temperature, use_cache, c, up, oracle, log) ==
    LET key    == GenerateCacheKey(model, messages, temperature)
        cached == IF use_cache THEN CacheGet(c, key, up) ELSE NoneVal
        out    == Outcome(oracle, Len(log) + 1)
        log1   == Append(log, [tier |-> "fast", max_tokens |-> 0, ok |-> out.ok,
                              text |-> out.text])
    IN  IF use_cache /\ Truthy(cached)
        THEN [ret |-> Ok(cached.val), cache |-> c, log |-> log, fallbacks |-> 0]
        ELSE IF out.ok
        THEN [ret |-> Ok(out.text),
              cache |-> IF use_cache /\ out.text # << >>
                        THEN CacheSet(c, key, out.text, CacheTTL, up) ELSE c,
              log |-> log1, fallbacks |-> 0]
        ELSE QwenFallback(messages, temperature, use_cache, c, up, oracle, log1)

\* tenacity on call_qwen: another attempt unless this was the third.
QwenMayRetry(n) == n < StopAfterAttempt

RECURSIVE QwenRetry(_, _, _, _, _, _, _, _, _, _)
\* tenacity after attempt n of call_qwen gave r.
QwenAfter(r, n, messages, model, temperature, use_cache, up, oracle, fb) ==
    IF r.ret.kind = "ok" \/ ~QwenMayRetry(n)
    THEN [ret |-> r.ret, cache |-> r.cache, log |-> r.log,
          fallbacks |-> fb + r.fallbacks]
    ELSE QwenRetry(n + 1, messages, model, temperature, use_cache,
                   r.cache, up, oracle, r.log, fb + r.fallbacks)

\* call_qwen under @retry, from attempt n on; fb counts the fallback calls.
QwenRetry(n, messages, model, temperature, use_cache, c, up, oracle, log, fb) ==
    QwenAfter(QwenBody(messages, model, temperature, use_cache, c, up, oracle,
                       log),
              n, messages, model, temperature, use_cache, up, oracle, fb)

CallQwen(messages, model, temperature, use_cache, c, up, oracle) ==
    QwenRetry(1, messages, model, temperature, use_cache, c, up, oracle, << >>, 0)

\* The gateway by tier, as the agents call it: call_qwen with the qwen model,
\* which takes no max_tokens; call_deepseek with its default model.
Complete(tier, messages, temperature, max_tokens, use_cache, c, up, oracle) ==
    IF tier = "fast"
    THEN CallQwen(messages, QwenModel, temperature, use_cache, c, up, oracle)
    ELSE WithFallbacks(CallDeepseek(messages, DeepseekModel, temperature,
                                    max_tokens, use_cache, c, up, oracle, << >>),
                       0)

TierModel(tier) == IF tier = "fast" THEN QwenModel ELSE DeepseekModel

\* The upstreams one call may meet.
Oracles(texts) == [fails : 0 .. MaxRequests, text : texts]

\* No gateway call has been submitted.
IdleGw ==
    [phase |-> "idle", tier |-> "deep", messages |-> <<"m1">>, temperature |-> 3,
     max_tokens |-> DefaultMaxTokens, use_cache |-> FALSE, up |-> TRUE,
     held |-> NoneVal, repeat |-> FALSE, other_max_tokens |-> FALSE,
     ret |-> Raise, log |-> << >>, fallbacks |-> 0]

-----------------------------------------------------------------------------
(* Signals and texts of the pipeline *)

\* Signals as collect_daily_signals builds them; `fundamentals` is the key
\* that enrich_signal_with_fundamentals adds.
SigABC ==
    [signal_type |-> "insider_trading", company |-> "ABC Ltd", symbol |-> "ABC",
     priority |-> 10, fundamentals |-> NoneVal]

SigXYZ ==
    [signal_type |-> "merger_arb", company |-> "XYZ Ltd", symbol |-> "XYZ",
     priority |-> 5, fundamentals |-> NoneVal]

Signals == {SigABC, SigXYZ}

\* The number of signals of a daily run.
NSignals == 2

\* str.upper(), token by token.
UpperToken(tok) ==
    CASE tok = "interesting: yes" -> "INTERESTING: YES"
      [] tok = "verified: yes"    -> "VERIFIED: YES"
      [] OTHER                    -> tok

Upper(text) == [i \in DOMAIN text |-> UpperToken(text[i])]

\* needle in text
Contains(text, needle) == \E i \in DOMAIN text : text[i] = needle

\* str.find / str.rfind of a token: its 0-based place, or -1.
Find(text, tok) ==
    IF Contains(text, tok)
    THEN (CHOOSE i \in DOMAIN text :
            text[i] = tok /\ \A j \in DOMAIN text : text[j] = tok => i <= j) - 1
    ELSE -1

RFind(text, tok) ==
    IF Contains(text, tok)
    THEN (CHOOSE i \in DOMAIN text :
            text[i] = tok /\ \A j \in DOMAIN text : text[j] = tok => j <= i) - 1
    ELSE -1

\* text[start:end] for 0 <= start, 0 <= end
Slice(text, start, end) ==
    LET e == IF end > Len(text) THEN Len(text) ELSE end
    IN  IF e <= start THEN << >> ELSE SubSeq(text, start + 1, e)

\* The members a JSON object of a Synthesis response may hold, one token each.
ScoreTokens ==
    {"score=6.9", "score=7.0", "score=8.0", "score=8.2", "score=12.0",
     "score='8.2'"}

MemberTokens == {"headline", "analysis", "evidence", "metadata"} \cup ScoreTokens

\* The value of an interestingness_score member: a float in tenths, or a str.
ScoreValue(tok) ==
    CASE tok = "score=6.9"   -> [kind |-> "float", n |-> 69]
      [] tok = "score=7.0"   -> [kind |-> "float", n |-> 70]
      [] tok = "score=8.0"   -> [kind |-> "float", n |-> 80]
      [] tok = "score=8.2"   -> [kind |-> "float", n |-> 82]
      [] tok = "score=12.0"  -> [kind |-> "float", n |-> 120]
      [] tok = "score='8.2'" -> [kind |-> "str", n |-> 82]

NoScore == [kind |-> "absent", n |-> 0]

MemberKey(tok) == IF tok \in ScoreTokens THEN "interestingness_score" ELSE tok

\* json.loads of a slice: an object is "{", members, "}"; anything else is a
\* JSONDecodeError. (A later member with the same key replaces an earlier one.)
JsonLoadsObject(slice) ==
    LET n     == Len(slice)
        valid == /\ n >= 2
                 /\ slice[1] = "{"
                 /\ slice[n] = "}"
                 /\ \A i \in 2 .. n - 1 : slice[i] \in MemberTokens
        scores == {i \in 2 .. n - 1 : slice[i] \in ScoreTokens}
    IN  IF ~valid THEN [ok |-> FALSE, keys |-> {}, score |-> NoScore]
        ELSE [ok |-> TRUE,
              keys |-> {MemberKey(slice[i]) : i \in 2 .. n - 1},
              score |-> IF scores = {} THEN NoScore
                        ELSE ScoreValue(slice[CHOOSE i \in scores :
                                                \A j \in scores : j <= i])]

\* What the upstream may answer to the prompts of each stage.
DiscoveryTexts ==
    {<<"INTERESTING: YES", "REASON">>, <<"interesting: yes">>,
     <<"INTERESTING: NO", "REASON">>}

Level1Texts == {<<"context">>}

Level2Texts == {<<"historical">>}

Level3Texts == {<<"fundamentals">>}

Level4Texts == {<<"thesis">>}

IndustryTexts == {<<"industry">>}

PeerTexts == {<<"peers">>}

ValidationTexts == {<<"VERIFIED: YES", "NOTES">>, <<"VERIFIED: NO", "NOTES">>}

SynthesisTexts ==
    {<<"Sure:", "{", "headline", "analysis", "evidence", "score=8.2",
       "metadata", "}", "Hope this helps">>,
     <<"{", "headline", "analysis", "evidence", "score=7.0", "metadata", "}">>,
     <<"{", "headline", "analysis", "evidence", "score=6.9", "metadata", "}">>,
     <<"{", "headline", "analysis", "evidence", "metadata", "}">>,
     <<"{", "analysis", "evidence", "score=8.2", "metadata", "}">>,
     <<"{", "headline", "oops", "}">>,
     <<"{", "headline", "analysis">>,
     <<"I cannot produce an insight">>}

\* What Screener.in may give for a symbol.
FundamentalsData == <<"market_cap", "roe">>

\* What a fetch may do: get_company_data returns the data, or returns None
\* (it catches the errors of the page), or the browser cannot be started or
\* opens no page (ScreenerScraper.__enter__, context.new_page), which raises.
Fetches == {"data", "none", "error"}

-----------------------------------------------------------------------------
(* src/graph/state.py, src/graph/workflow.py: the record of a run *)

NoBool == [some |-> FALSE, val |-> FALSE]

NoNumber == [some |-> FALSE, val |-> NoScore]

NoInsightData ==
    [keys |-> {}, interestingness_score |-> NoScore, signal_type |-> "",
     company_symbol |-> "", company_name |-> ""]

NoInsight == [some |-> FALSE, val |-> NoInsightData]

\* research_signal: ResearchState(signal=..., is_interesting=False,
\* research_path=[], errors=[], messages=[]); every other key is absent.
InitialState(signal) ==
    [signal |-> signal,
     is_interesting |-> FALSE,
     initial_assessment |-> NoneVal,
     level1_context |-> NoneVal,
     level2_historical |-> NoneVal,
     level3_fundamentals |-> NoneVal,
     level4_synthesis |-> NoneVal,
     industry_context |-> NoneVal,
     peer_comparison |-> NoneVal,
     facts_verified |-> NoBool,
     validation_notes |-> NoneVal,
     final_insight |-> NoInsight,
     passes_threshold |-> NoBool,
     interestingness_score |-> NoNumber,
     research_path |-> << >>,
     errors |-> << >>]

NoSignal ==
    [signal_type |-> "", company |-> "", symbol |-> "", priority |-> 0,
     fundamentals |-> NoneVal]

NoLocals ==
    [l1 |-> << >>, l2 |-> << >>, l3 |-> << >>, industry |-> << >>,
     response |-> NoneVal]

\* An f-string field: an absent key prints as None.
Render(o) == IF o.some THEN o.val ELSE <<"None">>

\* fundamentals.get(k, 'N/A') of the prompts of levels 1 and 3
RenderFundamentals(signal) ==
    IF signal.fundamentals.some THEN signal.fundamentals.val ELSE <<"N/A">>

\* Mutant of ShouldContinueResearch: the two answers are swapped.
ShouldContinueResearchSwapped(st) ==
    IF st.is_interesting THEN "stop" ELSE "continue"

\* _should_continue_research
ShouldContinueResearch(st) == IF st.is_interesting THEN "continue" ELSE "stop"

\* Mutant of AfterDiscovery: a plain edge from discovery to deep_research.
AfterDiscoveryAlways(st) == "deep_research"

\* The conditional edge after discovery: deep_research, or END.
AfterDiscovery(st) ==
    IF ShouldContinueResearch(st) = "continue" THEN "deep_research" ELSE "end"

-----------------------------------------------------------------------------
(* src/scrapers/data_collector.py *)

FundamentalsKey(symbol) == <<"fundamentals", symbol>>

\* enrich_signal_with_fundamentals: the signal it returns is the signal it
\* was given, with `fundamentals` set when the cache or the fetch gave some.
\* An exception of the scraper is not caught here.
Enrich(signal, c, up, fetch) ==
    LET key    == FundamentalsKey(signal.symbol)
        cached == CacheGet(c, key, up)
    IN  IF signal.symbol = ""
        THEN [signal |-> signal, cache |-> c, fetched |-> FALSE, raised |-> FALSE]
        ELSE IF Truthy(cached)
        THEN [signal |-> [signal EXCEPT !.fundamentals = Some(cached.val)],
              cache |-> c, fetched |-> FALSE, raised |-> FALSE]
        ELSE IF fetch = "data"
        THEN [signal |-> [signal EXCEPT !.fundamentals = Some(FundamentalsData)],
              cache |-> CacheSet(c, key, FundamentalsData, CacheTTL, up),
              fetched |-> TRUE, raised |-> FALSE]
        ELSE [signal |-> signal, cache |-> c, fetched |-> TRUE,
              raised |-> fetch = "error"]

-----------------------------------------------------------------------------
(* src/agents: the prompts (what of the record reaches the request) *)

DiscoveryMessages(signal) ==
    <<"discovery", signal.signal_type, signal.company, signal.symbol>>

Level1Messages(signal, enriched) ==
    <<"level1", signal.symbol, signal.signal_type, signal.company>>
        \o RenderFundamentals(enriched)

Level2Messages(signal) ==
    <<"level2", signal.symbol, signal.signal_type, signal.company>>

Level3Messages(signal, enriched) ==
    <<"level3", signal.symbol>> \o RenderFundamentals(enriched)
        \o <<signal.signal_type>>

\* Mutant of Level4Messages: the output of level 3 does not reach the prompt.
Level4MessagesWithoutLevel3(signal, c1, c2, c3) ==
    <<"level4", signal.signal_type>> \o c1 \o c2

Level4Messages(signal, c1, c2, c3) ==
    <<"level4", signal.signal_type>> \o c1 \o c2 \o c3

IndustryMessages(signal, level1_context) ==
    <<"industry", signal.company>> \o level1_context

PeerMessages(signal, level3_fundamentals) ==
    <<"peers", signal.company>> \o level3_fundamentals

ValidationMessages(st) ==
    <<"validation", st.signal.signal_type>>
        \o Render(st.level4_synthesis) \o Render(st.industry_context)

SynthesisMessages(st) ==
    <<"synthesis", st.signal.signal_type, st.signal.company, st.signal.symbol>>
        \o Render(st.initial_assessment) \o Render(st.level4_synthesis)
        \o Render(st.industry_context) \o Render(st.peer_comparison)
        \o Render(st.validation_notes)

\* A call of the gateway as a method of a stage makes it: call_qwen is the
\* fast tier, call_deepseek the deep tier.
GatewayCall(method, tier, temperature, messages) ==
    [kind |-> "gateway", by |-> method, tier |-> tier,
     temperature |-> temperature, messages |-> messages, returned |-> TRUE,
     text |-> << >>]

\* A fetch of the fundamentals of a symbol from the source.
Fetch(method, symbol) ==
    [kind |-> "fetch", by |-> method, tier |-> "", temperature |-> 0,
     messages |-> <<symbol>>, returned |-> TRUE, text |-> << >>]

\* The fetch an enrichment made, if it made one.
FetchOf(method, symbol, e) ==
    IF e.fetched
    THEN <<[Fetch(method, symbol) EXCEPT !.returned = ~e.raised]>>
    ELSE << >>

\* call_qwen(messages, model="qwen/qwen-2.5-72b-instruct", temperature=0.3)
DiscoveryCall(st) ==
    GatewayCall("discovery", "fast", 3, DiscoveryMessages(st.signal))

\* call_deepseek(messages, temperature=0.2), with the enriched signal
Level1Request(st, enriched) ==
    GatewayCall("level1", "deep", 2, Level1Messages(st.signal, enriched))

\* call_deepseek(messages, temperature=0.3)
Level2Request(st) ==
    GatewayCall("level2", "deep", 3, Level2Messages(st.signal))

\* call_deepseek(messages, temperature=0.2), with the enriched signal
Level3Request(st, enriched) ==
    GatewayCall("level3", "deep", 2, Level3Messages(st.signal, enriched))

\* call_deepseek(messages, temperature=0.4), over the outputs of levels 1-3
Level4Request(st, c1, c2, c3) ==
    GatewayCall("level4", "deep", 4, Level4Messages(st.signal, c1, c2, c3))

\* call_deepseek(messages, temperature=0.3)
IndustryCall(st) ==
    GatewayCall("industry", "deep", 3,
                IndustryMessages(st.signal, st.level1_context.val))

\* call_deepseek(messages, temperature=0.3)
PeersCall(st) ==
    GatewayCall("peers", "deep", 3,
                PeerMessages(st.signal, st.level3_fundamentals.val))

\* call_qwen(messages, model="qwen/qwen-2.5-72b-instruct", temperature=0.1)
ValidationCall(st) ==
    GatewayCall("validation", "fast", 1, ValidationMessages(st))

\* call_deepseek(messages, temperature=0.4, max_tokens=1500)
SynthesisCall(st) ==
    GatewayCall("synthesis", "deep", 4, SynthesisMessages(st))

\* The call as it ended: the gateway returned a text to the stage, or raised.
Answered(call, r) ==
    [call EXCEPT !.returned = r.ret.kind = "ok", !.text = r.ret.text]

\* max_tokens of the call_deepseek calls of the stages: 500, 700, 800 and
\* 1000 in DeepResearch, 1500 in Synthesis, the default in Context.
MaxTokensOf(method) ==
    CASE method = "level1"    -> 500
      [] method = "level2"    -> 700
      [] method = "level3"    -> 800
      [] method = "level4"    -> 1000
      [] method = "synthesis" -> 1500
      [] OTHER                -> DefaultMaxTokens

\* The gateway serves the call of a stage; the stages leave use_cache at its
\* default, True.
CompleteCall(call, c, up, oracle) ==
    Complete(call.tier, call.messages, call.temperature, MaxTokensOf(call.by),
             TRUE, c, up, oracle)

-----------------------------------------------------------------------------
(* src/agents: the stages, as nodes of the graph *)

\* Mutant of StageRaises: the stage swallows the exception and the graph ends
\* with the record as it was.
StageRaisesSwallowed(stage, c) ==
    /\ pc' = "end"
    /\ cache' = c
    /\ invoked' = Append(invoked, stage)
    /\ locals' = NoLocals
    /\ UNCHANGED state

\* A node raised: graph.invoke raises, the record is lost to research_signal.
StageRaises(stage, c) ==
    /\ pc' = "raised"
    /\ cache' = c
    /\ invoked' = Append(invoked, stage)
    /\ locals' = NoLocals
    /\ UNCHANGED state

\* A later gateway call of a stage already entered raised.
CallRaises(c) ==
    /\ pc' = "raised"
    /\ cache' = c
    /\ locals' = NoLocals
    /\ UNCHANGED <<state, invoked>>

\* "INTERESTING: YES" in response.upper()
ParseInteresting(response) == Contains(Upper(response), "INTERESTING: YES")

\* The update DiscoveryAgent.__call__ returns: its first return statement,
\* with research_path ["discovery"].
DiscoveryUpdate(st, response) ==
    [st EXCEPT !.is_interesting = ParseInteresting(response),
               !.initial_assessment = Some(response),
               !.research_path = <<"discovery">>]

\* DiscoveryAgent.__call__ once call_qwen gave r, and the edge after it.
DiscoveryReturns(r) ==
    /\ calls' = Append(calls, Answered(DiscoveryCall(state), r))
    /\ IF r.ret.kind = "raise"
       THEN StageRaises("discovery", r.cache)
       ELSE /\ state' = DiscoveryUpdate(state, r.ret.text)
            /\ pc' = AfterDiscovery(DiscoveryUpdate(state, r.ret.text))
            /\ cache' = r.cache
            /\ invoked' = Append(invoked, "discovery")
            /\ UNCHANGED locals

\* DiscoveryAgent.__call__: call_qwen at temperature 0.3
Discovery(oracle) ==
    /\ pc = "discovery"
    /\ DiscoveryReturns(CompleteCall(DiscoveryCall(state), cache, redisUp,
                                     oracle))
    /\ UNCHANGED <<gw, post, redisUp, signals, idx, ret, insights, outcomes>>

\* _research_level1 once enrichment gave signal e and call_deepseek gave r.
\* The enriched signal is the signal of the record and of daily_run's list.
Level1Returns(e, fetches, r) ==
    /\ signals' = [signals EXCEPT ![idx] = e]
    /\ calls' = calls \o fetches \o <<Answered(Level1Request(state, e), r)>>
    /\ IF r.ret.kind = "raise"
       THEN StageRaises("deep_research", r.cache)
       ELSE /\ state' = [state EXCEPT !.signal = e]
            /\ locals' = [locals EXCEPT !.l1 = r.ret.text]
            /\ pc' = "level2"
            /\ cache' = r.cache
            /\ invoked' = Append(invoked, "deep_research")

\* _research_level1 once enrichment gave e: call_deepseek at 0.2
Level1Call(e, oracle) ==
    IF e.raised
    THEN /\ StageRaises("deep_research", e.cache)
         /\ calls' = calls \o FetchOf("level1", state.signal.symbol, e)
         /\ UNCHANGED signals
    ELSE Level1Returns(e.signal, FetchOf("level1", state.signal.symbol, e),
                       CompleteCall(Level1Request(state, e.signal), e.cache,
                                    redisUp, oracle))

\* DeepResearchAgent.__call__, up to the end of _research_level1. A record
\* that is not interesting gets the skip marker and nothing else.
DeepResearchLevel1(fetch, oracle) ==
    /\ pc = "deep_research"
    /\ IF ~state.is_interesting
       THEN /\ state' = [state EXCEPT !.research_path =
                            Append(state.research_path, "deep_research_skipped")]
            /\ pc' = "context"
            /\ invoked' = Append(invoked, "deep_research")
            /\ UNCHANGED <<cache, locals, signals, calls>>
       ELSE Level1Call(Enrich(state.signal, cache, redisUp, fetch), oracle)
    /\ UNCHANGED <<gw, post, redisUp, idx, ret, insights, outcomes>>

Level2Returns(r) ==
    /\ calls' = Append(calls, Answered(Level2Request(state), r))
    /\ IF r.ret.kind = "raise"
       THEN CallRaises(r.cache)
       ELSE /\ locals' = [locals EXCEPT !.l2 = r.ret.text]
            /\ pc' = "level3"
            /\ cache' = r.cache
            /\ UNCHANGED <<state, invoked>>

\* _research_level2: call_deepseek at 0.3
DeepResearchLevel2(oracle) ==
    /\ pc = "level2"
    /\ Level2Returns(CompleteCall(Level2Request(state), cache, redisUp, oracle))
    /\ UNCHANGED <<gw, post, redisUp, signals, idx, ret, insights, outcomes>>

Level3Returns(e, fetches, r) ==
    /\ signals' = [signals EXCEPT ![idx] = e]
    /\ calls' = calls \o fetches \o <<Answered(Level3Request(state, e), r)>>
    /\ IF r.ret.kind = "raise"
       THEN CallRaises(r.cache)
       ELSE /\ state' = [state EXCEPT !.signal = e]
            /\ locals' = [locals EXCEPT !.l3 = r.ret.text]
            /\ pc' = "level4"
            /\ cache' = r.cache
            /\ UNCHANGED invoked

Level3Call(e, oracle) ==
    IF e.raised
    THEN /\ CallRaises(e.cache)
         /\ calls' = calls \o FetchOf("level3", state.signal.symbol, e)
         /\ UNCHANGED signals
    ELSE Level3Returns(e.signal, FetchOf("level3", state.signal.symbol, e),
                       CompleteCall(Level3Request(state, e.signal), e.cache,
                                    redisUp, oracle))

\* _research_level3: the enrichment again, then call_deepseek at 0.2
DeepResearchLevel3(fetch, oracle) ==
    /\ pc = "level3"
    /\ Level3Call(Enrich(state.signal, cache, redisUp, fetch), oracle)
    /\ UNCHANGED <<gw, post, redisUp, idx, ret, insights, outcomes>>

\* The update DeepResearchAgent.__call__ returns.
DeepResearchUpdate(st, l1, l2, l3, l4) ==
    [st EXCEPT !.level1_context = Some(l1),
               !.level2_historical = Some(l2),
               !.level3_fundamentals = Some(l3),
               !.level4_synthesis = Some(l4),
               !.research_path = Append(st.research_path, "deep_research")]

Level4Returns(r) ==
    /\ calls' = Append(calls,
                       Answered(Level4Request(state, locals.l1, locals.l2,
                                              locals.l3), r))
    /\ IF r.ret.kind = "raise"
       THEN CallRaises(r.cache)
       ELSE /\ state' = DeepResearchUpdate(state, locals.l1, locals.l2,
                                           locals.l3, r.ret.text)
            /\ locals' = NoLocals
            /\ pc' = "context"
            /\ cache' = r.cache
            /\ UNCHANGED invoked

\* _research_level4 (call_deepseek at 0.4) and the return of the stage
DeepResearchLevel4(oracle) ==
    /\ pc = "level4"
    /\ Level4Returns(CompleteCall(Level4Request(state, locals.l1, locals.l2,
                                                locals.l3),
                                  cache, redisUp, oracle))
    /\ UNCHANGED <<gw, post, redisUp, signals, idx, ret, insights, outcomes>>

IndustryReturns(r) ==
    /\ calls' = Append(calls, Answered(IndustryCall(state), r))
    /\ IF r.ret.kind = "raise"
       THEN StageRaises("context", r.cache)
       ELSE /\ locals' = [locals EXCEPT !.industry = r.ret.text]
            /\ pc' = "context_peers"
            /\ cache' = r.cache
            /\ invoked' = Append(invoked, "context")
            /\ UNCHANGED state

\* ContextAgent.__call__, up to the end of _analyze_industry (call_deepseek
\* at 0.3). state['level1_context'] of an absent key is a KeyError.
ContextIndustry(oracle) ==
    /\ pc = "context"
    /\ IF ~state.level1_context.some
       THEN StageRaises("context", cache) /\ UNCHANGED calls
       ELSE IndustryReturns(CompleteCall(IndustryCall(state), cache, redisUp,
                                         oracle))
    /\ UNCHANGED <<gw, post, redisUp, signals, idx, ret, insights, outcomes>>

\* The update ContextAgent.__call__ returns.
ContextUpdate(st, industry, peers) ==
    [st EXCEPT !.industry_context = Some(industry),
               !.peer_comparison = Some(peers),
               !.research_path = Append(st.research_path, "context")]

PeersReturns(r) ==
    /\ calls' = Append(calls, Answered(PeersCall(state), r))
    /\ IF r.ret.kind = "raise"
       THEN CallRaises(r.cache)
       ELSE /\ state' = ContextUpdate(state, locals.industry, r.ret.text)
            /\ locals' = NoLocals
            /\ pc' = "validation"
            /\ cache' = r.cache
            /\ UNCHANGED invoked

\* _compare_peers (call_deepseek at 0.3) and the return of the stage
ContextPeers(oracle) ==
    /\ pc = "context_peers"
    /\ IF ~state.level3_fundamentals.some
       THEN CallRaises(cache) /\ UNCHANGED calls
       ELSE PeersReturns(CompleteCall(PeersCall(state), cache, redisUp,
                                      oracle))
    /\ UNCHANGED <<gw, post, redisUp, signals, idx, ret, insights, outcomes>>

\* "VERIFIED: YES" in response.upper()
ParseVerified(response) == Contains(Upper(response), "VERIFIED: YES")

\* Mutant of ValidationUpdate: the notes are also written over the synthesis
\* of DeepResearch.
ValidationUpdateOverwrites(st, response) ==
    [st EXCEPT !.facts_verified = [some |-> TRUE, val |-> ParseVerified(response)],
               !.validation_notes = Some(response),
               !.level4_synthesis = Some(response),
               !.research_path = Append(st.research_path, "validation")]

\* The update ValidationAgent.__call__ returns.
ValidationUpdate(st, response) ==
    [st EXCEPT !.facts_verified = [some |-> TRUE, val |-> ParseVerified(response)],
               !.validation_notes = Some(response),
               !.research_path = Append(st.research_path, "validation")]

ValidationReturns(r) ==
    /\ calls' = Append(calls, Answered(ValidationCall(state), r))
    /\ IF r.ret.kind = "raise"
       THEN StageRaises("validation", r.cache)
       ELSE /\ state' = ValidationUpdate(state, r.ret.text)
            /\ pc' = "synthesis"
            /\ cache' = r.cache
            /\ invoked' = Append(invoked, "validation")
            /\ UNCHANGED locals

\* ValidationAgent.__call__: call_qwen at temperature 0.1
Validation(oracle) ==
    /\ pc = "validation"
    /\ ValidationReturns(CompleteCall(ValidationCall(state), cache, redisUp,
                                      oracle))
    /\ UNCHANGED <<gw, post, redisUp, signals, idx, ret, insights, outcomes>>

\* insight_data['interestingness_score'] >= 7.0
Threshold == 70

\* Mutant of PassesThreshold: the boundary score is left out.
PassesThresholdStrict(score) == score.n > Threshold

\* passes_threshold = insight_data['interestingness_score'] >= threshold
PassesThreshold(score) == score.n >= Threshold

\* The try block of SynthesisAgent.__call__: the slice from the first "{" to
\* the last "}" is parsed; a missing score is a KeyError and a str score a
\* TypeError of >=. ok = FALSE stands for any of these exceptions.
SynthesisParse(signal, response) ==
    LET start == Find(response, "{")
        end   == RFind(response, "}") + 1
        obj   == IF start # -1 /\ end # -1
                 THEN JsonLoadsObject(Slice(response, start, end))
                 ELSE [ok |-> FALSE, keys |-> {}, score |-> NoScore]
    IN  IF obj.ok /\ obj.score.kind = "float"
        THEN [ok |-> TRUE,
              insight |->
                  [keys |-> obj.keys \cup
                            {"signal_type", "company_symbol", "company_name"},
                   interestingness_score |-> obj.score,
                   signal_type |-> signal.signal_type,
                   company_symbol |-> signal.symbol,
                   company_name |-> signal.company],
              passes_threshold |-> PassesThreshold(obj.score)]
        ELSE [ok |-> FALSE, insight |-> NoInsightData,
              passes_threshold |-> FALSE]

\* Mutant of SynthesisUpdate: the exception of a failed parse is recorded, and
\* the stage is marked as having run.
SynthesisUpdateSameMarker(st, response) ==
    IF SynthesisParse(st.signal, response).ok
    THEN [st EXCEPT
            !.final_insight =
                [some |-> TRUE, val |-> SynthesisParse(st.signal, response).insight],
            !.passes_threshold =
                [some |-> TRUE,
                 val |-> SynthesisParse(st.signal, response).passes_threshold],
            !.interestingness_score =
                [some |-> TRUE,
                 val |-> SynthesisParse(st.signal, response).insight
                            .interestingness_score],
            !.research_path = Append(st.research_path, "synthesis")]
    ELSE [st EXCEPT
            !.errors = Append(st.errors, "Synthesis Error"),
            !.research_path = Append(st.research_path, "synthesis")]

\* Mutant of SynthesisUpdateOf: a failed parse leaves no error in the record.
SynthesisUpdateOfSilent(st, p) ==
    IF p.ok
    THEN [st EXCEPT
            !.final_insight = [some |-> TRUE, val |-> p.insight],
            !.passes_threshold = [some |-> TRUE, val |-> p.passes_threshold],
            !.interestingness_score =
                [some |-> TRUE, val |-> p.insight.interestingness_score],
            !.research_path = Append(st.research_path, "synthesis")]
    ELSE [st EXCEPT
            !.research_path = Append(st.research_path, "synthesis_failed")]

\* The update SynthesisAgent.__call__ returns for a response.
SynthesisUpdateOf(st, p) ==
    IF p.ok
    THEN [st EXCEPT
            !.final_insight = [some |-> TRUE, val |-> p.insight],
            !.passes_threshold = [some |-> TRUE, val |-> p.passes_threshold],
            !.interestingness_score =
                [some |-> TRUE, val |-> p.insight.interestingness_score],
            !.research_path = Append(st.research_path, "synthesis")]
    ELSE [st EXCEPT
            !.errors = Append(st.errors, "Synthesis Error"),
            !.research_path = Append(st.research_path, "synthesis_failed")]

SynthesisUpdate(st, response) ==
    SynthesisUpdateOf(st, SynthesisParse(st.signal, response))

SynthesisReturns(r) ==
    /\ calls' = Append(calls, Answered(SynthesisCall(state), r))
    /\ IF r.ret.kind = "raise"
       THEN StageRaises("synthesis", r.cache)
       ELSE /\ state' = SynthesisUpdate(state, r.ret.text)
            /\ pc' = "end"
            /\ cache' = r.cache
            /\ invoked' = Append(invoked, "synthesis")
            /\ locals' = [locals EXCEPT !.response = Some(r.ret.text)]

\* SynthesisAgent.__call__: call_deepseek at temperature 0.4
Synthesis(oracle) ==
    /\ pc = "synthesis"
    /\ SynthesisReturns(CompleteCall(SynthesisCall(state), cache, redisUp,
                                     oracle))
    /\ UNCHANGED <<gw, post, redisUp, signals, idx, ret, insights, outcomes>>

-----------------------------------------------------------------------------
(* src/models/reward_model.py *)

\* train(self, min_samples: int = 20)
MinSamplesDefault == 20

\* The largest number of labeled (insight, feedback) rows considered.
MaxRows == 21

\* A fitted LogisticRegression, by what it does with the initial score.
Models == {"rising", "falling", "flat"}

\* RewardModel.__init__: an unfitted model, is_trained = False.
FreshRanker == [is_trained |-> FALSE, model |-> "unfitted"]

\* What the feedback query may return: `count` rows, `highs` of them rated
\* 4 or 5 stars (none, one, or all of them).
FeedbackRows(counts) ==
    {r \in [count : counts, highs : {0, 1} \cup counts] :
        r.highs \in {0, 1, r.count} /\ r.highs <= r.count}

\* What a query meets in the database: it runs ("ok"); it fails, or no
\* connection is made, and the except branch of execute ends normally
\* ("error"); the connection is lost under it, and conn.rollback() in the
\* except branch raises on the closed connection ("lost").
DbOutcomes == {"ok", "error", "lost"}

\* PostgresManager.execute: the exception that leaves it.
ExecuteRaises(db) == db = "lost"

\* PostgresManager.execute(..., fetch='all'): the rows, or [] after a
\* database error.
ExecuteFetchAll(rows, db) ==
    IF db = "ok" THEN rows ELSE [count |-> 0, highs |-> 0]

\* The labels of the rows: 1 if rated 4-5 stars, 0 otherwise.
Labels(rows) ==
    (IF rows.highs > 0 THEN {1} ELSE {}) \cup
    (IF rows.highs < rows.count THEN {0} ELSE {})

\* not training_data or len(training_data) < min_samples
TooFewRows(training_data, min_samples) ==
    training_data.count = 0 \/ training_data.count < min_samples

\* RewardModel.train on the rows the query gave: what it returns and the
\* ranker it leaves. LogisticRegression.fit raises ValueError when the labels
\* hold one class only; the exception leaves train. `m` is the model a
\* successful fit gives.
TrainOn(ranker, training_data, min_samples, m) ==
    IF TooFewRows(training_data, min_samples)
    THEN [result |-> "false", ranker |-> ranker]
    ELSE IF Cardinality(Labels(training_data)) < 2
    THEN [result |-> "raised", ranker |-> ranker]
    ELSE [result |-> "true", ranker |-> [is_trained |-> TRUE, model |-> m]]

\* RewardModel.train(min_samples), with the query it starts with
TrainCall(ranker, rows, db, min_samples, m) ==
    IF ExecuteRaises(db)
    THEN [result |-> "raised", ranker |-> ranker]
    ELSE TrainOn(ranker, ExecuteFetchAll(rows, db), min_samples, m)

\* insight.get('interestingness_score', 5.0), in tenths
InitialScore(insight) ==
    IF insight.interestingness_score.kind = "absent" THEN 50
    ELSE insight.interestingness_score.n

\* insight.get('signal', {}).get('priority', 5.0): the insight of Synthesis
\* is the object of the response with signal_type, company_symbol and
\* company_name added; it holds a 'signal' only if the response had one.
SignalPriority(insight) ==
    IF "signal" \in insight.keys THEN insight.signal.priority ELSE 5

\* extract_features, as far as the texts of the insights are modelled
ExtractFeatures(insight) ==
    [initial_score |-> InitialScore(insight),
     has_promoter_activity |-> FALSE,
     signal_priority |-> SignalPriority(insight),
     has_analysis |-> "analysis" \in insight.keys,
     has_evidence |-> "evidence" \in insight.keys]

\* model.predict_proba(features)[0][1], in thousandths: a probability.
PredictProba(model, features) ==
    CASE model = "rising"  -> IF features.initial_score >= 100 THEN 900
                              ELSE IF features.initial_score >= 80 THEN 700
                              ELSE 300
      [] model = "falling" -> IF features.initial_score >= 100 THEN 100
                              ELSE IF features.initial_score >= 80 THEN 300
                              ELSE 700
      [] OTHER             -> 500

\* Mutant of ScoreOverTen: the score is returned as it is.
ScoreNotDivided(insight) == InitialScore(insight) * 100

\* insight.get('interestingness_score', 5.0) / 10.0, in thousandths
ScoreOverTen(insight) == (InitialScore(insight) * 100) \div 10

\* RewardModel.predict_quality, in thousandths
PredictQuality(ranker, insight) ==
    IF ~ranker.is_trained THEN ScoreOverTen(insight)
    ELSE PredictProba(ranker.model, ExtractFeatures(insight))

\* No train has been called.
NoTrain ==
    [called |-> FALSE, count |-> 0, highs |-> 0, min_samples |-> 0,
     db |-> "ok", before |-> FreshRanker, result |-> "none"]

\* daily_run has not left the research loop; no ranker exists.
IdlePost ==
    [phase |-> "idle", ranker |-> FreshRanker, train |-> NoTrain,
     items |-> << >>, k |-> 0, selected |-> << >>, dropped |-> << >>,
     calls |-> << >>, next_id |-> 1, feedback |-> << >>,
     training_data |-> << >>, y |-> << >>]

-----------------------------------------------------------------------------
(* src/graph/workflow.py, scripts/daily_run.py: one signal after the other *)

\* Mutant of ResearchSignalResult: the insight is returned whenever Synthesis
\* has left one.
ResearchSignalResultAny(position, st) ==
    IF position = "end" /\ st.final_insight.some
    THEN st.final_insight
    ELSE NoInsight

\* Mutant of ResearchSignalResult: an insight is only returned for a record
\* whose facts were verified.
ResearchSignalResultVerified(position, st) ==
    IF /\ position = "end" /\ st.passes_threshold.some /\ st.passes_threshold.val
       /\ st.facts_verified.some /\ st.facts_verified.val
    THEN st.final_insight
    ELSE NoInsight

\* What research_signal returns once graph.invoke has returned or raised.
ResearchSignalResult(position, st) ==
    IF position = "end" /\ st.passes_threshold.some /\ st.passes_threshold.val
    THEN st.final_insight
    ELSE NoInsight

\* Mutant of ResearchSignalExit: an exception of graph.invoke leaves
\* research_signal, and the loop of daily_run with it.
ResearchSignalExitPropagates(position) ==
    IF position = "raised" THEN "aborted" ELSE "returned"

\* try/except of research_signal: graph.invoke returned or raised, and either
\* way research_signal returns to the loop of daily_run.
ResearchSignalExit(position) == "returned"

\* daily_run, for i, signal in enumerate(signals, 1): research_signal builds
\* the initial record and the graph starts at its entry point.
StartSignal ==
    /\ pc = "loop"
    /\ idx < Len(signals)
    /\ idx' = idx + 1
    /\ state' = InitialState(signals[idx + 1])
    /\ pc' = "discovery"
    /\ invoked' = << >>
    /\ calls' = << >>
    /\ ret' = NoInsight
    /\ locals' = NoLocals
    /\ UNCHANGED <<cache, gw, post, redisUp, signals, insights, outcomes>>

\* research_signal returns: the insight if the final record passes the
\* threshold, None otherwise and None after any exception.
ResearchSignalReturn ==
    /\ pc \in {"end", "raised"}
    /\ ret' = ResearchSignalResult(pc, state)
    /\ outcomes' = Append(outcomes,
                          [raised |-> pc = "raised", path |-> state.research_path,
                           ret |-> ret'])
    /\ pc' = ResearchSignalExit(pc)
    /\ calls' = << >>
    /\ UNCHANGED <<cache, gw, post, redisUp, signals, idx, state, locals, invoked,
                   insights>>

\* daily_run: if insight: insights.append(insight)
Collect ==
    /\ pc = "returned"
    /\ insights' = IF ret.some THEN Append(insights, ret.val) ELSE insights
    /\ pc' = "loop"
    /\ UNCHANGED <<cache, gw, post, redisUp, signals, idx, state, locals, invoked,
                   calls, ret, outcomes>>

\* The loop over the signals is over.
LoopDone ==
    /\ pc = "loop"
    /\ idx = Len(signals)
    /\ pc' = "researched"
    /\ UNCHANGED <<cache, gw, post, redisUp, signals, idx, state, locals, invoked,
                   calls, ret, insights, outcomes>>

\* The state in which research_signal and daily_run find the program.
RunInit(batch, up) ==
    /\ cache = << >>
    /\ gw = IdleGw
    /\ redisUp = up
    /\ signals = batch
    /\ idx = 0
    /\ pc = "loop"
    /\ state = InitialState(NoSignal)
    /\ locals = NoLocals
    /\ invoked = << >>
    /\ calls = << >>
    /\ ret = NoInsight
    /\ insights = << >>
    /\ outcomes = << >>
    /\ post = IdlePost

\* One signal is researched, with Redis answering or not.
Init == \E s \in Signals, up \in BOOLEAN : RunInit(<<s>>, up)

\* A daily run over NSignals signals. Redis does not answer, so that every
\* lookup of the batch is a miss and every write is dropped (cache.py turns
\* the errors into that); the runs with a working cache are those of Spec.
BatchInit == \E b \in [1 .. NSignals -> Signals] : RunInit(b, FALSE)

\* What the upstreams do under a call of a stage: a stage sees of its call
\* only whether it returned, what, and what it left in the cache. Either no
\* request fails; or all attempts of the first upstream fail, so that a
\* call_deepseek raises and a call_qwen returns through its fallback; or
\* every request the call can make fails.
StageFails == {0, StopAfterAttempt, MaxRequests}

StageOracles(texts) == {o \in Oracles(texts) : o.fails \in StageFails}

Next ==
    \/ StartSignal
    \/ \E oracle \in StageOracles(DiscoveryTexts) : Discovery(oracle)
    \/ \E fetch \in Fetches, oracle \in StageOracles(Level1Texts) :
          DeepResearchLevel1(fetch, oracle)
    \/ \E oracle \in StageOracles(Level2Texts) : DeepResearchLevel2(oracle)
    \/ \E fetch \in Fetches, oracle \in StageOracles(Level3Texts) :
          DeepResearchLevel3(fetch, oracle)
    \/ \E oracle \in StageOracles(Level4Texts) : DeepResearchLevel4(oracle)
    \/ \E oracle \in StageOracles(IndustryTexts) : ContextIndustry(oracle)
    \/ \E oracle \in StageOracles(PeerTexts) : ContextPeers(oracle)
    \/ \E oracle \in StageOracles(ValidationTexts) : Validation(oracle)
    \/ \E oracle \in StageOracles(SynthesisTexts) : Synthesis(oracle)
    \/ ResearchSignalReturn
    \/ Collect
    \/ LoopDone

Spec == Init /\ [][Next]_vars

SpecBatch == BatchInit /\ [][Next]_vars

-----------------------------------------------------------------------------
(* The gateway on its own: requests are submitted one at a time. *)

Tiers == {"fast", "deep"}

\* The prompts and temperatures of the submitted requests.
GwMessages == {<<"m1">>}

GwTemperatures == {1, 3}

\* What the upstream may answer: "" and two other texts.
GwTexts == {<< >>, <<"a">>, <<"b">>}

OwnKey(g) == GenerateCacheKey(TierModel(g.tier), g.messages, g.temperature)

\* max_tokens of the submitted deep-tier requests.
GwMaxTokens == {1000, DefaultMaxTokens}

\* A caller submits a request. `held` is what Redis holds under the request's
\* own key; `repeat` says that this is the request of the call that returned
\* just before, both with caching enabled and a working cache, max_tokens
\* left aside; `other_max_tokens` says that the two differ in max_tokens.
Submit(tier, messages, temperature, max_tokens, use_cache) ==
    /\ gw.phase \in {"idle", "done"}
    /\ gw' = [IdleGw EXCEPT
                !.phase = "pending", !.tier = tier, !.messages = messages,
                !.temperature = temperature, !.max_tokens = max_tokens,
                !.use_cache = use_cache,
                !.held = LET k == GenerateCacheKey(TierModel(tier), messages,
                                                   temperature)
                         IN  IF k \in DOMAIN cache
                             THEN Some(JsonLoads(cache[k].data)) ELSE NoneVal,
                !.repeat = /\ gw.phase = "done"
                           /\ gw.ret.kind = "ok"
                           /\ gw.use_cache /\ use_cache /\ gw.up
                           /\ gw.tier = tier
                           /\ gw.messages = messages
                           /\ gw.temperature = temperature,
                !.other_max_tokens = gw.max_tokens # max_tokens]
    /\ UNCHANGED <<cache, runVars>>

\* The gateway serves the submitted request: the whole of call_qwen or
\* call_deepseek, retries and fallback included.
Served(up, r) ==
    /\ cache' = r.cache
    /\ gw' = [gw EXCEPT !.phase = "done", !.up = up, !.ret = r.ret,
                        !.log = r.log, !.fallbacks = r.fallbacks]

Serve(up, oracle) ==
    /\ gw.phase = "pending"
    /\ Served(up, Complete(gw.tier, gw.messages, gw.temperature, gw.max_tokens,
                           gw.use_cache, cache, up, oracle))
    /\ UNCHANGED runVars

\* The TTL of an entry lapses between two calls.
Expire(key) ==
    /\ gw.phase \in {"idle", "done"}
    /\ key \in DOMAIN cache
    /\ cache' = [k \in DOMAIN cache \ {key} |-> cache[k]]
    /\ gw' = IdleGw
    /\ UNCHANGED runVars

GwInit == RunInit(<< >>, TRUE)

GwNext ==
    \/ \E m \in GwMessages, t \in GwTemperatures, uc \in BOOLEAN :
          \/ Submit("fast", m, t, DefaultMaxTokens, uc)
          \/ \E mt \in GwMaxTokens : Submit("deep", m, t, mt, uc)
    \/ \E up \in BOOLEAN, oracle \in Oracles(GwTexts) : Serve(up, oracle)
    \/ \E key \in DOMAIN cache : Expire(key)

SpecGateway == GwInit /\ [][GwNext]_vars

\* A submitted request is served: call_qwen and call_deepseek run on the
\* caller's thread and nothing else is waited for.
Serving == \E up \in BOOLEAN, oracle \in Oracles(GwTexts) : Serve(up, oracle)

\* The calls of one caller that asks with one prompt and one temperature.
GwLiveNext ==
    \/ \E tier \in Tiers, uc \in BOOLEAN :
          Submit(tier, <<"m1">>, 1, DefaultMaxTokens, uc)
    \/ Serving
    \/ \E key \in DOMAIN cache : Expire(key)

SpecGatewayLive == GwInit /\ [][GwLiveNext]_vars /\ WF_vars(Serving)

-----------------------------------------------------------------------------
(* scripts/daily_run.py after the research loop: embed, train, rank, select *)

\* config.DAILY_INSIGHT_COUNT
DailyInsightCount == 5

\* The largest number of insights the research loop is taken to collect.
MaxInsights == 6

\* Synthesis responses with scores 7.0, 8.0 and 12.0.
RankTexts ==
    {<<"{", "headline", "analysis", "evidence", "score=7.0", "metadata", "}">>,
     <<"{", "headline", "analysis", "evidence", "score=8.0", "metadata", "}">>,
     <<"{", "headline", "analysis", "evidence", "score=12.0", "metadata", "}">>}

\* The insights research_signal can return for a signal on these responses.
Candidates ==
    {SynthesisParse(SigABC, t).insight :
        t \in {u \in RankTexts : SynthesisParse(SigABC, u).passes_threshold}}

\* The lists the research loop can leave.
CandidateLists == UNION {[1 .. n -> Candidates] : n \in 0 .. MaxInsights}

\* EmbeddingManager.embed_insight: a vector made from the texts of the insight.
EmbedInsight(insight) == <<"embedding", insight.keys>>

\* for insight in insights: insight['embedding'] = embeddings.embed_insight(insight)
Embedded(list) ==
    [i \in DOMAIN list |->
        [insight |-> list[i], embedding |-> EmbedInsight(list[i]),
         predicted_quality |-> [some |-> FALSE, val |-> 0]]]

\* x.get('predicted_quality', 0)
SortKey(item) ==
    IF item.predicted_quality.some THEN item.predicted_quality.val ELSE 0

\* The place of x in a list sorted by descending key: behind every element
\* whose key is not smaller (the sort is stable).
RECURSIVE InsertDesc(_, _)
InsertDesc(sorted, x) ==
    IF sorted = << >> THEN <<x>>
    ELSE IF SortKey(Head(sorted)) >= SortKey(x)
    THEN <<Head(sorted)>> \o InsertDesc(Tail(sorted), x)
    ELSE <<x>> \o sorted

\* Mutant of SortDesc: the list is left in the order of the research loop.
SortDescNot(items) == items

\* insights.sort(key=lambda x: x.get('predicted_quality', 0), reverse=True)
RECURSIVE SortDesc(_)
SortDesc(items) ==
    IF items = << >> THEN << >>
    ELSE InsertDesc(SortDesc(SubSeq(items, 1, Len(items) - 1)),
                    items[Len(items)])

\* insights[:top_n]
TopN(items, n) == SubSeq(items, 1, IF Len(items) < n THEN Len(items) ELSE n)

\* insights[top_n:], the insights left out
Rest(items, n) == SubSeq(items, (IF Len(items) < n THEN Len(items) ELSE n) + 1,
                         Len(items))

\* Step 3: every insight gets its embedding.
Embed ==
    /\ post.phase = "researched"
    /\ post' = [post EXCEPT !.phase = "embedded", !.items = Embedded(insights)]
    /\ UNCHANGED <<cache, gw, redisUp, signals, idx, pc, state, locals, invoked,
                   calls, ret, insights, outcomes>>

\* What train() left, as daily_run goes on: an exception of train leaves main.
AfterTrain(rows, db, t) ==
    post' = [post EXCEPT
               !.phase = IF t.result = "raised" THEN "aborted" ELSE "trained",
               !.ranker = t.ranker,
               !.train = [called |-> TRUE, count |-> rows.count,
                          highs |-> rows.highs,
                          min_samples |-> MinSamplesDefault, db |-> db,
                          before |-> FreshRanker, result |-> t.result]]

\* Mutant of TrainIsDue: train may also be called during the ranking pass.
TrainIsDueAnytime(p) == p.phase \in {"embedded", "trained"}

\* main calls train once, between the embeddings and the ranking pass.
TrainIsDue(p) == p.phase = "embedded"

\* Step 4: reward_model = RewardModel(postgres); reward_model.train()
DailyTrain(rows, db, m) ==
    /\ TrainIsDue(post)
    /\ AfterTrain(rows, db,
                  TrainCall(FreshRanker, rows, db, MinSamplesDefault, m))
    /\ UNCHANGED <<cache, gw, redisUp, signals, idx, pc, state, locals, invoked,
                   calls, ret, insights, outcomes>>

\* for insight in insights: insight['predicted_quality'] = predict_quality(insight)
Predict ==
    /\ post.phase = "trained"
    /\ post.k < Len(post.items)
    /\ post' = [post EXCEPT
                  !.k = post.k + 1,
                  !.items[post.k + 1].predicted_quality =
                      [some |-> TRUE,
                       val |-> PredictQuality(post.ranker,
                                              post.items[post.k + 1].insight)]]
    /\ UNCHANGED <<cache, gw, redisUp, signals, idx, pc, state, locals, invoked,
                   calls, ret, insights, outcomes>>

\* Rank by predicted quality, select the top N.
SelectTop ==
    /\ post.phase = "trained"
    /\ post.k = Len(post.items)
    /\ post' = [post EXCEPT
                  !.phase = "selected",
                  !.items = SortDesc(post.items),
                  !.selected = TopN(SortDesc(post.items), DailyInsightCount),
                  !.dropped = Rest(SortDesc(post.items), DailyInsightCount)]
    /\ UNCHANGED <<cache, gw, redisUp, signals, idx, pc, state, locals, invoked,
                   calls, ret, insights, outcomes>>

\* The research loop is over and has left the list `list`; p is what main
\* holds besides.
Researched(list, p) ==
    /\ cache = << >>
    /\ gw = IdleGw
    /\ redisUp = TRUE
    /\ signals = << >>
    /\ idx = 0
    /\ pc = "researched"
    /\ state = InitialState(NoSignal)
    /\ locals = NoLocals
    /\ invoked = << >>
    /\ calls = << >>
    /\ ret = NoInsight
    /\ insights = list
    /\ outcomes = << >>
    /\ post = p

RankInit ==
    \E list \in CandidateLists :
        Researched(list, [IdlePost EXCEPT !.phase = "researched"])

\* The feedback table at the time of a daily run.
DailyRows == FeedbackRows({0, MinSamplesDefault})

RankNext ==
    \/ Embed
    \/ \E rows \in DailyRows, db \in DbOutcomes, m \in Models :
          DailyTrain(rows, db, m)
    \/ Predict
    \/ SelectTop

SpecRank == RankInit /\ [][RankNext]_vars

-----------------------------------------------------------------------------
(* The ranker on its own: train is called again and again. *)

\* The numbers of rows the feedback query is taken to return.
TrainCounts == {0, 1, MinSamplesDefault - 1, MinSamplesDefault, MaxRows}

MinSamples == {1, MinSamplesDefault}

\* What a call of train left in the ranker and returned.
Trained(rows, min_samples, db, t) ==
    post' = [post EXCEPT
               !.ranker = t.ranker,
               !.train = [called |-> TRUE, count |-> rows.count,
                          highs |-> rows.highs, min_samples |-> min_samples,
                          db |-> db, before |-> post.ranker,
                          result |-> t.result]]

\* RewardModel.train(min_samples)
Train(rows, min_samples, db, m) ==
    /\ post.phase = "ranker"
    /\ Trained(rows, min_samples, db,
               TrainCall(post.ranker, rows, db, min_samples, m))
    /\ UNCHANGED <<cache, gw, redisUp, signals, idx, pc, state, locals, invoked,
                   calls, ret, insights, outcomes>>

TrainInit == Researched(<< >>, [IdlePost EXCEPT !.phase = "ranker"])

TrainNext ==
    \E rows \in FeedbackRows(TrainCounts), min_samples \in MinSamples,
       db \in DbOutcomes, m \in Models : Train(rows, min_samples, db, m)

SpecTrain == TrainInit /\ [][TrainNext]_vars

-----------------------------------------------------------------------------
(* src/feedback/collector.py, src/models/reward_model.py: the feedback table
   and the training set train draws from it *)

\* The largest number of rows of the feedback table.
MaxFeedback == 3

\* The ids of the rows of the insights table.
InsightIds == {1, 2}

\* data['insight_id'] of a submitted form: an insight, or an id no insight has.
SubmittedIds == InsightIds \cup {3}

\* star_rating of a feedback row; 0 stands for NULL.
StarRatings == {0, 3, 4, 5}

\* submit_feedback: INSERT INTO feedback (insight_id, star_rating, ...)
SubmitFeedback(insight_id, star_rating) ==
    /\ post.phase = "feedback"
    /\ Len(post.feedback) < MaxFeedback
    /\ post' = [post EXCEPT
                  !.feedback = Append(post.feedback,
                                      [insight_id |-> insight_id,
                                       star_rating |-> star_rating])]
    /\ UNCHANGED <<cache, gw, redisUp, signals, idx, pc, state, locals, invoked,
                   calls, ret, insights, outcomes>>

\* FROM insights i JOIN feedback f ON i.id = f.insight_id
\* WHERE f.star_rating IS NOT NULL: a row per feedback row that has a rating
\* and an insight. The LEFT JOIN on signals adds the priority column and, the
\* id of a signal being its key, no row.
RECURSIVE TrainingQuery(_)
TrainingQuery(feedback) ==
    IF feedback = << >> THEN << >>
    ELSE IF Head(feedback).insight_id \in InsightIds
            /\ Head(feedback).star_rating # 0
         THEN <<Head(feedback)>> \o TrainingQuery(Tail(feedback))
         ELSE TrainingQuery(Tail(feedback))

\* Mutant of LabelOf: only 5 stars count as a high rating.
LabelOfFiveStars(row) == IF row.star_rating > 4 THEN 1 ELSE 0

\* label = 1 if row[5] >= 4 else 0
LabelOf(row) == IF row.star_rating >= 4 THEN 1 ELSE 0

\* for row in training_data: ... y.append(label)
LabelsOf(training_data) ==
    [i \in DOMAIN training_data |-> LabelOf(training_data[i])]

\* The rows as train sums them up: how many, and how many of them labelled 1.
Summary(training_data) ==
    [count |-> Len(training_data),
     highs |-> Cardinality({i \in DOMAIN training_data :
                               LabelOf(training_data[i]) = 1})]

\* What train left: the rows the query gave, the labels if the loop over the
\* rows was reached, the ranker and the result.
TrainedOnFeedback(training_data, min_samples, db, t) ==
    post' = [post EXCEPT
               !.ranker = t.ranker,
               !.training_data = training_data,
               !.y = IF TooFewRows(Summary(training_data), min_samples)
                     THEN << >> ELSE LabelsOf(training_data),
               !.train = [called |-> TRUE, count |-> Len(training_data),
                          highs |-> Summary(training_data).highs,
                          min_samples |-> min_samples, db |-> db,
                          before |-> post.ranker, result |-> t.result]]

\* RewardModel.train(min_samples) on the feedback table as it is
TrainOnFeedback(min_samples, db, m) ==
    /\ post.phase = "feedback"
    /\ IF ExecuteRaises(db)
       THEN TrainedOnFeedback(<< >>, min_samples, db,
                              [result |-> "raised", ranker |-> post.ranker])
       ELSE IF db = "ok"
       THEN TrainedOnFeedback(TrainingQuery(post.feedback), min_samples, db,
                TrainOn(post.ranker, Summary(TrainingQuery(post.feedback)),
                        min_samples, m))
       ELSE TrainedOnFeedback(<< >>, min_samples, db,
                TrainOn(post.ranker, Summary(<< >>), min_samples, m))
    /\ UNCHANGED <<cache, gw, redisUp, signals, idx, pc, state, locals, invoked,
                   calls, ret, insights, outcomes>>

FeedbackInit == Researched(<< >>, [IdlePost EXCEPT !.phase = "feedback"])

FeedbackNext ==
    \/ \E insight_id \in SubmittedIds, star_rating \in StarRatings :
          SubmitFeedback(insight_id, star_rating)
    \/ \E min_samples \in {1, 2}, db \in DbOutcomes :
          TrainOnFeedback(min_samples, db, "rising")

SpecFeedback == FeedbackInit /\ [][FeedbackNext]_vars

-----------------------------------------------------------------------------
(* scripts/daily_run.py, src/memory/postgres_manager.py: store and present *)

\* The largest number of insights a store pass is taken to start from.
MaxStored == 3

\* No id, no stored embedding.
NoId == [some |-> FALSE, val |-> 0]
NoEmbedding == [some |-> FALSE, id |-> 0, vector |-> << >>]

\* PostgresManager.store_insight: result[0] if result else None; the id is
\* the next one of the table.
StoreInsight(db, next_id) ==
    IF db = "ok" THEN [some |-> TRUE, val |-> next_id] ELSE NoId

\* if insight_id: postgres.store_embedding(insight_id, insight['embedding'])
EmbeddingStored(insight_id, next_id, embedding) ==
    IF insight_id.some
    THEN [some |-> TRUE, id |-> insight_id.val, vector |-> embedding]
    ELSE NoEmbedding

\* One pass of the body of `for insight in selected_insights`: db is what the
\* INSERT of store_insight meets, db_e what the UPDATE of store_embedding
\* meets. An exception that leaves execute leaves main.
StoreIteration(item, db, db_e, next_id) ==
    IF ExecuteRaises(db)
    THEN [insight |-> item.insight, db |-> db, raised |-> "store_insight",
          insight_id |-> NoId, embedding |-> NoEmbedding, logged |-> FALSE]
    ELSE [insight |-> item.insight, db |-> db,
          raised |-> IF StoreInsight(db, next_id).some /\ ExecuteRaises(db_e)
                     THEN "store_embedding" ELSE "none",
          insight_id |-> StoreInsight(db, next_id),
          embedding |-> EmbeddingStored(StoreInsight(db, next_id), next_id,
                                        item.embedding),
          logged |-> StoreInsight(db, next_id).some /\ ~ExecuteRaises(db_e)]

\* What an iteration leaves in main.
Stored(c) ==
    post' = [post EXCEPT
               !.calls = Append(@, c),
               !.next_id = IF c.insight_id.some THEN @ + 1 ELSE @,
               !.phase = IF c.raised = "none" THEN @ ELSE "aborted"]

\* Step 6: the next selected insight is stored.
Store(db, db_e) ==
    /\ post.phase = "selected"
    /\ Len(post.calls) < Len(post.selected)
    /\ Stored(StoreIteration(post.selected[Len(post.calls) + 1], db, db_e,
                             post.next_id))
    /\ UNCHANGED <<cache, gw, redisUp, signals, idx, pc, state, locals, invoked,
                   calls, ret, insights, outcomes>>

\* Step 7: generate_email_digest(selected_insights)
Digest ==
    /\ post.phase = "selected"
    /\ Len(post.calls) = Len(post.selected)
    /\ post' = [post EXCEPT !.phase = "digest"]
    /\ UNCHANGED <<cache, gw, redisUp, signals, idx, pc, state, locals, invoked,
                   calls, ret, insights, outcomes>>

\* The insights of the list with their embeddings and predicted qualities.
Ranked(ranker, list) ==
    [i \in DOMAIN list |->
        [Embedded(list)[i] EXCEPT
            !.predicted_quality =
                [some |-> TRUE, val |-> PredictQuality(ranker, list[i])]]]

\* What main holds when steps 3 to 5 are over: t is what train left.
Selected(list, rows, db, t) ==
    [IdlePost EXCEPT
        !.phase = "selected",
        !.ranker = t.ranker,
        !.train = [called |-> TRUE, count |-> rows.count, highs |-> rows.highs,
                   min_samples |-> MinSamplesDefault, db |-> db,
                   before |-> FreshRanker, result |-> t.result],
        !.k = Len(list),
        !.items = SortDesc(Ranked(t.ranker, list)),
        !.selected = TopN(SortDesc(Ranked(t.ranker, list)), DailyInsightCount),
        !.dropped = Rest(SortDesc(Ranked(t.ranker, list)), DailyInsightCount)]

StoreInit ==
    \E list \in {l \in CandidateLists : Len(l) <= MaxStored},
       rows \in DailyRows, db \in DbOutcomes, m \in Models :
        /\ TrainCall(FreshRanker, rows, db, MinSamplesDefault, m).result
               # "raised"
        /\ Researched(list,
                      Selected(list, rows, db,
                               TrainCall(FreshRanker, rows, db,
                                         MinSamplesDefault, m)))

StoreNext ==
    \/ \E db \in DbOutcomes, db_e \in DbOutcomes : Store(db, db_e)
    \/ Digest

SpecStore == StoreInit /\ [][StoreNext]_vars

-----------------------------------------------------------------------------
(* src/agents: the stages as functions from a record to its update *)

\* The number of stages applied one after the other.
MaxApplied == 3

\* The research_path of the records the stages start from.
IncomingPaths == {<< >>, <<"discovery">>}

\* What a stage returned is merged into the record it was applied to.
Applied(stage, update) ==
    /\ Len(invoked) < MaxApplied
    /\ state' = update
    /\ invoked' = Append(invoked, stage)
    /\ UNCHANGED <<cache, gw, post, redisUp, signals, idx, pc, locals, calls,
                   ret, insights, outcomes>>

\* DiscoveryAgent.__call__ on the record, the gateway answering `response`.
ApplyDiscovery(response) ==
    /\ pc = "stage"
    /\ Applied("discovery", DiscoveryUpdate(state, response))

\* DeepResearchAgent.__call__ on the record: the skip branch, or the four
\* levels answered l1 .. l4.
ApplyDeepResearch(l1, l2, l3, l4) ==
    /\ pc = "stage"
    /\ Applied("deep_research",
               IF ~state.is_interesting
               THEN [state EXCEPT !.research_path =
                         Append(state.research_path, "deep_research_skipped")]
               ELSE DeepResearchUpdate(state, l1, l2, l3, l4))

\* ContextAgent.__call__ on a record that has level1_context and
\* level3_fundamentals (else it raises KeyError and returns nothing).
ApplyContext(industry, peers) ==
    /\ pc = "stage"
    /\ state.level1_context.some
    /\ state.level3_fundamentals.some
    /\ Applied("context", ContextUpdate(state, industry, peers))

\* ValidationAgent.__call__ on the record
ApplyValidation(response) ==
    /\ pc = "stage"
    /\ Applied("validation", ValidationUpdate(state, response))

\* SynthesisAgent.__call__ on the record
ApplySynthesis(response) ==
    /\ pc = "stage"
    /\ Applied("synthesis", SynthesisUpdate(state, response))

\* A record as a stage may find it, before any stage was applied.
Incoming(signal, path) ==
    /\ cache = << >>
    /\ gw = IdleGw
    /\ redisUp = TRUE
    /\ signals = <<signal>>
    /\ idx = 1
    /\ pc = "stage"
    /\ state = [InitialState(signal) EXCEPT !.research_path = path]
    /\ locals = NoLocals
    /\ invoked = << >>
    /\ calls = << >>
    /\ ret = NoInsight
    /\ insights = << >>
    /\ outcomes = << >>
    /\ post = IdlePost

StageInit == \E s \in Signals, path \in IncomingPaths : Incoming(s, path)

StageNext ==
    \/ \E t \in DiscoveryTexts : ApplyDiscovery(t)
    \/ \E l1 \in Level1Texts, l2 \in Level2Texts, l3 \in Level3Texts,
          l4 \in Level4Texts : ApplyDeepResearch(l1, l2, l3, l4)
    \/ \E i \in IndustryTexts, q \in PeerTexts : ApplyContext(i, q)
    \/ \E t \in ValidationTexts : ApplyValidation(t)
    \/ \E t \in SynthesisTexts : ApplySynthesis(t)

SpecStage == StageInit /\ [][StageNext]_vars

-----------------------------------------------------------------------------
(* The pipeline: properties of Spec and SpecBatch *)

Last(path) == path[Len(path)]

\* Discovery has given its verdict, and the verdict is "not interesting".
VerdictNo == state.initial_assessment.some /\ ~state.is_interesting

\* The run of the signal at hand stopped directly after Discovery.
StoppedAfterDiscovery ==
    /\ state.research_path = <<"discovery">>
    /\ invoked = <<"discovery">>
    /\ ~state.final_insight.some

\* Synthesis ran and returned its success update.
SynthesisSucceeded ==
    /\ state.research_path # << >>
    /\ Last(state.research_path) = "synthesis"

\* Synthesis ran and failed softly.
SynthesisFailedSoftly ==
    /\ state.research_path # << >>
    /\ Last(state.research_path) = "synthesis_failed"
    /\ state.errors = <<"Synthesis Error">>
    /\ ~state.final_insight.some
    /\ ~state.passes_threshold.some

\* C1: once Discovery has judged a signal not interesting, the run is at END
\* or past it, the record has no final_insight, research_path is exactly
\* ["discovery"], discovery is the only stage that was invoked, and what
\* research_signal returns (and daily_run collects) is no insight.
C1_NotInterestingStops ==
    VerdictNo =>
        /\ pc \in {"end", "returned", "loop", "researched"}
        /\ ~state.final_insight.some
        /\ state.research_path = <<"discovery">>
        /\ invoked = <<"discovery">>
        /\ (pc # "end" => ~ret.some /\ ~Last(outcomes).ret.some)

\* C1, witness: research_signal has returned for a signal judged not
\* interesting.
C1_Witness == VerdictNo /\ pc = "returned" /\ ~ret.some

\* C2: whenever Synthesis has succeeded, the record's interestingness_score
\* is the score of final_insight, and passes_threshold is computed and true
\* exactly when that score is a number >= 7.0 (70 tenths).
C2_ThresholdExact ==
    SynthesisSucceeded =>
        /\ state.final_insight.some
        /\ state.interestingness_score.some
        /\ state.interestingness_score.val
              = state.final_insight.val.interestingness_score
        /\ state.final_insight.val.interestingness_score.kind = "float"
        /\ state.passes_threshold.some
        /\ state.passes_threshold.val
              = (state.final_insight.val.interestingness_score.n >= 70)

\* C2, witness: Synthesis succeeded with the boundary score 7.0, which passes.
C2_Witness ==
    /\ SynthesisSucceeded
    /\ state.final_insight.val.interestingness_score.n = 70
    /\ state.passes_threshold.val

\* C3 as stated: a run at END has final_insight set and passes_threshold
\* computed, or it stopped directly after Discovery with no final_insight.
C3_TwoShapes ==
    pc = "end" =>
        \/ state.final_insight.some /\ state.passes_threshold.some
        \/ StoppedAfterDiscovery

\* C3, amended: a run at END has one of three shapes, each excluding the
\* others: Synthesis succeeded (final_insight set, passes_threshold computed),
\* or the run stopped directly after Discovery, or Synthesis failed softly
\* (path ends with "synthesis_failed", one error recorded, no final_insight,
\* passes_threshold not computed).
C3_ThreeShapes ==
    pc = "end" =>
        \/ /\ SynthesisSucceeded
           /\ state.final_insight.some /\ state.passes_threshold.some
           /\ state.errors = << >>
        \/ /\ StoppedAfterDiscovery
           /\ ~state.passes_threshold.some
           /\ state.errors = << >>
        \/ /\ SynthesisFailedSoftly
           /\ invoked # <<"discovery">>

\* C3, witness: a run at END after a soft failure of Synthesis.
C3_Witness == pc = "end" /\ SynthesisFailedSoftly

\* The positions of a daily run that is still going on.
Running ==
    {"loop", "discovery", "deep_research", "level2", "level3", "level4",
     "context", "context_peers", "validation", "synthesis", "end", "raised",
     "returned"}

\* The signals research_signal has returned for.
ReturnedFor == IF pc \in {"loop", "returned", "researched"} THEN idx ELSE idx - 1

\* daily_run's list after the given calls of research_signal.
RECURSIVE Collected(_)
Collected(outs) ==
    IF outs = << >> THEN << >>
    ELSE LET rest == Collected(SubSeq(outs, 1, Len(outs) - 1))
             o    == outs[Len(outs)]
         IN  IF o.ret.some THEN Append(rest, o.ret.val) ELSE rest

\* The insights a run of research_signal on this signal alone can return.
AloneInsights(signal) ==
    {SynthesisParse(signal, t).insight :
        t \in {u \in SynthesisTexts :
                 /\ SynthesisParse(signal, u).ok
                 /\ SynthesisParse(signal, u).passes_threshold}}

\* C4: in a daily run over a batch, the run stops only when research_signal
\* has returned for every signal; a signal whose run raised in any stage got
\* no insight; every insight returned for a signal is one that signal yields
\* alone; and the collected list is exactly the returned insights, in order.
C4_BatchIsolation ==
    /\ pc \in Running \/ (pc = "researched" /\ Len(outcomes) = Len(signals))
    /\ Len(outcomes) = ReturnedFor
    /\ \A i \in DOMAIN outcomes :
          /\ outcomes[i].raised => ~outcomes[i].ret.some
          /\ outcomes[i].ret.some =>
                outcomes[i].ret.val \in AloneInsights(signals[i])
    /\ pc \in {"loop", "researched"} => insights = Collected(outcomes)

\* C4, witness: the batch is done, a signal that was not the last one raised,
\* and a later signal gave an insight.
C4_Witness ==
    /\ pc = "researched"
    /\ \E i, j \in DOMAIN outcomes :
          i < j /\ outcomes[i].raised /\ outcomes[j].ret.some
    /\ insights # << >>

\* The entry a stage leaves in research_path stands for that stage.
StageOfEntry(entry) ==
    CASE entry = "deep_research_skipped" -> "deep_research"
      [] entry = "synthesis_failed"      -> "synthesis"
      [] OTHER                           -> entry

\* No stage is in the middle of its calls.
BetweenStages == pc \notin {"level2", "level3", "level4", "context_peers"}

\* C15 as stated: whenever no stage is under way, research_path holds exactly
\* one entry for every stage the engine entered, in the order of entry, also
\* after a stage whose Gateway call raised.
C15_OneEntryPerStage ==
    BetweenStages =>
        /\ Len(state.research_path) = Len(invoked)
        /\ \A i \in DOMAIN invoked :
              StageOfEntry(state.research_path[i]) = invoked[i]

\* graph.invoke returned for the signal at hand: no stage raised.
RunEnded ==
    \/ pc = "end"
    \/ /\ pc \in {"returned", "loop", "researched"}
       /\ outcomes # << >>
       /\ ~Last(outcomes).raised

FiveStages ==
    <<"discovery", "deep_research", "context", "validation", "synthesis">>

\* A Synthesis response holding valid JSON with interestingness_score 8.2.
Text82 ==
    <<"Sure:", "{", "headline", "analysis", "evidence", "score=8.2",
      "metadata", "}", "Hope this helps">>

JsonSlice(text) == Slice(text, Find(text, "{"), RFind(text, "}") + 1)

\* A slice that is a JSON object: "{", members, "}".
IsObject(slice) ==
    /\ Len(slice) >= 2
    /\ slice[1] = "{"
    /\ slice[Len(slice)] = "}"
    /\ \A i \in 2 .. Len(slice) - 1 : slice[i] \in MemberTokens

\* The text cannot be parsed as JSON: no "{", no "}", or an invalid slice.
Unparseable(text) ==
    \/ ~Contains(text, "{")
    \/ ~Contains(text, "}")
    \/ ~IsObject(JsonSlice(text))

\* C17: when the Synthesis response cannot be parsed as JSON, the stage has
\* not raised: the run is at END or past it with exactly one "Synthesis Error"
\* in errors, "synthesis_failed" as the last entry of research_path after the
\* entries of the four earlier stages, no final_insight and no
\* passes_threshold, and research_signal returns no insight.
C17_ParseFailureIsSoft ==
    (locals.response.some /\ Unparseable(locals.response.val))
    => /\ RunEnded
       /\ Last(invoked) = "synthesis"
       /\ SynthesisFailedSoftly
       /\ state.research_path =
             <<"discovery", "deep_research", "context", "validation",
               "synthesis_failed">>
       /\ pc # "end" => ~ret.some

\* C17, witness: research_signal returned nothing after a Synthesis response
\* with an invalid slice between its braces.
C17_Witness ==
    /\ pc = "returned"
    /\ Last(invoked) = "synthesis"
    /\ locals.response = Some(<<"{", "headline", "oops", "}">>)
    /\ SynthesisFailedSoftly
    /\ ~ret.some

\* The keys a Synthesis response must hold.
RequiredKeys ==
    {"headline", "analysis", "evidence", "interestingness_score", "metadata"}

\* The keys of a response that parses as a JSON object.
KeysOf(text) ==
    {MemberKey(JsonSlice(text)[i]) : i \in 2 .. Len(JsonSlice(text)) - 1}

\* C18 as stated: when the Synthesis response parses as JSON and lacks one of
\* the required keys, the stage records a synthesis error, marks the path
\* with "synthesis_failed" and sets no final_insight.
C18_MissingKeyIsFailure ==
    (/\ locals.response.some
     /\ ~Unparseable(locals.response.val)
     /\ ~(RequiredKeys \subseteq KeysOf(locals.response.val)))
    => SynthesisFailedSoftly

\* C19 as stated, for the first fetch of DeepResearch: a step of
\* _research_level1 in which the fundamentals are not obtained (the fetch
\* returns nothing, or fails) and the Gateway answers goes on to level 2,
\* the run is not aborted.
C19_FetchFailureNotFatal ==
    [][(/\ pc = "deep_research"
        /\ state.is_interesting
        /\ \E fetch \in {"none", "error"}, oracle \in Oracles(Level1Texts) :
              oracle.fails = 0 /\ DeepResearchLevel1(fetch, oracle))
       => pc' = "level2"]_vars

-----------------------------------------------------------------------------
(* The gateway: properties of SpecGateway *)

\* The gateway call at hand has returned or raised.
Done == gw.phase = "done"

\* The call found a working cache holding an entry under its own key.
HeldEntry == gw.use_cache /\ gw.up /\ gw.held.some

\* The call took a text from the cache under its own key, as the code
\* decides it: the entry is there and the text is not "".
Hit == gw.use_cache /\ gw.up /\ Truthy(gw.held)

\* The requests the call sent to the upstream of its own tier, in order.
OwnRequests == SelectSeq(gw.log, LAMBDA e : e.tier = gw.tier)

\* C5 as stated, for the second of the two calls: a call that repeats the
\* request of the successful call just before it, both with caching enabled
\* and within the TTL, issues no upstream request.
C5_RepeatIssuesNoRequest == (Done /\ gw.repeat /\ gw.up) => gw.log = << >>

\* C6 as stated: a call whose own-tier upstream failed its first two requests
\* and answered the third returns that answer, and no fallback call is made.
C6_ThirdAttemptNoFallback ==
    (/\ Done
     /\ Len(OwnRequests) >= 3
     /\ ~OwnRequests[1].ok /\ ~OwnRequests[2].ok /\ OwnRequests[3].ok)
    => gw.ret = Ok(OwnRequests[3].text) /\ gw.fallbacks = 0

\* C7 as stated: a fast-tier call all of whose fast requests failed has made
\* exactly one fallback call, and raises if no request of that call succeeded.
C7_OneFallback ==
    (/\ Done
     /\ gw.tier = "fast"
     /\ OwnRequests # << >>
     /\ \A i \in DOMAIN OwnRequests : ~OwnRequests[i].ok)
    => /\ gw.fallbacks = 1
       /\ (\A i \in DOMAIN gw.log : ~gw.log[i].ok) => gw.ret = Raise

\* C8: a deep-tier call that takes nothing from the cache issues one to three
\* upstream requests, all to the deep tier; every request but the last one
\* failed; the call returns the answer of the last request if that succeeded,
\* and raises if it failed, which happens only at the third request.
C8_DeepAtMostThree ==
    (Done /\ gw.tier = "deep" /\ ~Hit) =>
        /\ Len(gw.log) \in 1 .. 3
        /\ \A i \in DOMAIN gw.log : gw.log[i].tier = "deep"
        /\ \A i \in 1 .. Len(gw.log) - 1 : ~gw.log[i].ok
        /\ gw.fallbacks = 0
        /\ IF gw.log[Len(gw.log)].ok
           THEN gw.ret = Ok(gw.log[Len(gw.log)].text)
           ELSE gw.ret = Raise /\ Len(gw.log) = 3

\* C8, witness: a deep-tier call raised after three failed requests.
C8_Witness ==
    /\ Done /\ gw.tier = "deep" /\ ~Hit
    /\ gw.ret = Raise
    /\ Len(gw.log) = 3

\* C9 as stated: a call with caching enabled that finds an entry under its
\* own key returns the text of the entry and issues no upstream request.
C9_HitIssuesNoRequest ==
    (Done /\ HeldEntry) => gw.log = << >> /\ gw.ret = Ok(gw.held.val)

\* C10 as stated: after a call that returned with caching enabled, the cache
\* holds the returned text under the request's own key, with a TTL of 24 h.
C10_WrittenUnderOwnKey ==
    (Done /\ gw.ret.kind = "ok" /\ gw.use_cache /\ gw.up) =>
        /\ OwnKey(gw) \in DOMAIN cache
        /\ JsonLoads(cache[OwnKey(gw)].data) = gw.ret.text
        /\ cache[OwnKey(gw)].ttl = 86400

-----------------------------------------------------------------------------
(* The ranker and the ranking pass: properties of SpecRank and SpecTrain *)

\* The insights that have got their predicted_quality.
Predicted == {i \in DOMAIN post.items : post.items[i].predicted_quality.some}

\* C11 as stated: every predicted_quality lies in [0, 1] (0 .. 1000
\* thousandths), with a trained and with an untrained ranker.
C11_QualityInUnitInterval ==
    \A i \in Predicted :
        /\ post.items[i].predicted_quality.val >= 0
        /\ post.items[i].predicted_quality.val <= 1000

\* C12: while the ranker is untrained, the predicted_quality of every insight
\* is its interestingness_score / 10 (a score in tenths is ten times as many
\* thousandths).
C12_UntrainedIsScoreOverTen ==
    ~post.ranker.is_trained =>
        \A i \in Predicted :
            post.items[i].predicted_quality.val
                = 10 * post.items[i].insight.interestingness_score.n

\* C12, witness: with zero feedback rows, train returned false and an insight
\* of score 8.0 got 0.8.
C12_Witness ==
    /\ post.train.called /\ post.train.db = "ok" /\ post.train.count = 0
    /\ post.train.result = "false"
    /\ ~post.ranker.is_trained
    /\ \E i \in Predicted :
          /\ post.items[i].insight.interestingness_score.n = 80
          /\ post.items[i].predicted_quality.val = 800

\* The rows train got from its query.
RowsSeen == IF post.train.db = "ok" THEN post.train.count ELSE 0

\* C13 as stated: a call of train that got fewer than min_samples rows (also
\* after a failed query) returned false and left the ranker as it was; with
\* min_samples rows or more it trained: it returned true and the trained flag
\* is set.
C13_TrainBySampleCount ==
    post.train.called =>
        IF RowsSeen < post.train.min_samples
        THEN post.train.result = "false" /\ post.ranker = post.train.before
        ELSE post.train.result = "true" /\ post.ranker.is_trained

\* How often an insight occurs in a list of ranked items.
Occurrences(items, insight) ==
    Cardinality({i \in DOMAIN items : items[i].insight = insight})

\* C14: once the ranking pass has selected, every candidate has a
\* predicted_quality; the selected and the left-out insights together are the
\* candidates; at most DAILY_INSIGHT_COUNT (5) are selected, and all of them
\* when there are no more than 5; and no insight left out has a strictly
\* higher predicted_quality than a selected one.
C14_TopNByQuality ==
    post.phase = "selected" =>
        /\ Len(post.items) = Len(insights)
        /\ Predicted = DOMAIN post.items
        /\ \A c \in Candidates :
              Occurrences(post.selected, c) + Occurrences(post.dropped, c)
                  = Cardinality({i \in DOMAIN insights : insights[i] = c})
        /\ Len(post.selected) <= 5
        /\ Len(post.selected) = 5 \/ post.dropped = << >>
        /\ \A i \in DOMAIN post.selected : post.selected[i].predicted_quality.some
        /\ \A i \in DOMAIN post.selected, j \in DOMAIN post.dropped :
              post.dropped[j].predicted_quality.val
                  <= post.selected[i].predicted_quality.val

\* C14, witness: six candidates, the one that was first in the list of the
\* research loop has the lowest predicted_quality and is the one left out.
C14_Witness ==
    /\ post.phase = "selected"
    /\ Len(insights) = 6
    /\ Len(post.selected) = 5
    /\ Len(post.dropped) = 1
    /\ post.dropped[1].insight = insights[1]
    /\ \A i \in DOMAIN post.selected :
          post.dropped[1].predicted_quality.val
              < post.selected[i].predicted_quality.val

-----------------------------------------------------------------------------
(* Store and present: properties of SpecStore *)

\* C20 as stated: a selected insight whose store_insight failed does not end
\* the run, gets no store_embedding and no "Stored insight" line; when the run
\* has come to the digest every selected insight has had its store_insight, in
\* the order of the selection; and store_embedding is only ever called with
\* the id that store_insight returned for the same insight, and with the
\* embedding of that insight.
C20_StoreFailureIsLocal ==
    /\ \A i \in DOMAIN post.calls :
          post.calls[i].db # "ok" =>
              /\ post.calls[i].raised = "none"
              /\ ~post.calls[i].embedding.some
              /\ ~post.calls[i].logged
    /\ post.phase = "digest" =>
          /\ Len(post.calls) = Len(post.selected)
          /\ \A i \in DOMAIN post.calls :
                /\ post.calls[i].insight = post.selected[i].insight
                /\ post.calls[i].db = "ok" => post.calls[i].insight_id.some
    /\ \A i \in DOMAIN post.calls :
          post.calls[i].embedding.some =>
              /\ post.calls[i].insight_id.some
              /\ post.calls[i].embedding.id = post.calls[i].insight_id.val
              /\ post.calls[i].embedding.vector = post.selected[i].embedding

-----------------------------------------------------------------------------
(* The gateway and the stages: what is called, and when *)

\* C21 as stated: a fast-tier call sends no request to the deep tier before
\* the fast tier's own 3 attempts have all failed.
C21_FallbackAfterFastExhausted ==
    (Done /\ gw.tier = "fast") =>
        \A i \in DOMAIN gw.log :
            gw.log[i].tier = "deep" =>
                /\ i > StopAfterAttempt
                /\ \A j \in 1 .. StopAfterAttempt :
                      gw.log[j].tier = "fast" /\ ~gw.log[j].ok

\* The gateway calls a method of the stages has made during the run at hand.
CallsBy(methods) ==
    SelectSeq(calls, LAMBDA c : c.kind = "gateway" /\ c.by \in methods)

\* C22 as stated: once the Validation stage has been entered, it has made
\* exactly one gateway call, to the deep tier, at temperature 0.1.
C22_ValidationOneDeepCall ==
    (pc \in {"synthesis", "end", "raised"} /\ "validation" \in
        {invoked[i] : i \in DOMAIN invoked}) =>
        /\ Len(CallsBy({"validation"})) = 1
        /\ CallsBy({"validation"})[1].tier = "deep"
        /\ CallsBy({"validation"})[1].temperature = 1

\* The stage a method that calls the gateway belongs to.
StageOfMethod(method) ==
    CASE method \in {"level1", "level2", "level3", "level4"} -> "deep_research"
      [] method \in {"industry", "peers"} -> "context"
      [] OTHER -> method

\* The gateway calls of the run at hand that raised.
RaisedCalls == {i \in DOMAIN calls : calls[i].kind = "gateway" /\ ~calls[i].returned}

\* C23: a gateway call that raised is the last thing its run did: the
\* exception has left the stage and graph.invoke, the stage of the call is the
\* last stage invoked, and research_signal returns no insight for a run that
\* an exception ended.
C23_GatewayFailurePropagates ==
    /\ \A i \in RaisedCalls :
          /\ i = Len(calls)
          /\ pc = "raised"
          /\ Last(invoked) = StageOfMethod(calls[i].by)
    /\ (pc \in {"returned", "loop", "researched"} /\ outcomes # << >>
        /\ Last(outcomes).raised) =>
          ~ret.some /\ ~Last(outcomes).ret.some

\* C23, witness: the gateway call of Validation raised after three stages had
\* returned.
C23_Witness ==
    /\ pc = "raised"
    /\ invoked = <<"discovery", "deep_research", "context", "validation">>
    /\ RaisedCalls = {Len(calls)}
    /\ Last(calls).by = "validation"

\* C24 as stated: the research_path a stage returns is the research_path of
\* the record it was applied to with exactly one element appended, also when
\* that path is not empty.
C24_ReadThenAppend ==
    [][/\ Len(state'.research_path) = Len(state.research_path) + 1
       /\ SubSeq(state'.research_path, 1, Len(state.research_path))
              = state.research_path]_vars

\* The signals research_signal has returned for.
Handled == 1 .. ReturnedFor

\* C25 as stated: after research_signal has returned for a signal, the signal
\* has the keys and values the collector gave it.
C25_SignalUnchanged == \A i \in Handled : signals[i] \in Signals

\* The fetches of fundamentals during the run at hand.
Fetched == SelectSeq(calls, LAMBDA c : c.kind = "fetch")

\* C28 as stated: within one DeepResearch run the fundamentals source is
\* fetched at most once; the enrichment of level 3 makes no fetch after the
\* enrichment of level 1, also when the fetch of level 1 found no data.
C28_FetchedAtMostOnce == Len(Fetched) <= 1

\* The fields of the record that the stages write, each absent until then.
WrittenFields ==
    {"initial_assessment", "level1_context", "level2_historical",
     "level3_fundamentals", "level4_synthesis", "industry_context",
     "peer_comparison", "facts_verified", "validation_notes", "final_insight",
     "passes_threshold", "interestingness_score"}

\* C26: within a run, a step leaves every field that has been written as it
\* is; is_interesting is written together with initial_assessment.
C26_WrittenFieldsKept ==
    [][idx' = idx =>
          /\ \A f \in WrittenFields : state[f].some => state'[f] = state[f]
          /\ state.initial_assessment.some =>
                state'.is_interesting = state.is_interesting]_vars

\* C26, witness: a run in which every stage has written its fields.
C26_Witness ==
    /\ pc = "end"
    /\ \A f \in WrittenFields : state[f].some

\* The record with the other Validation verdict.
OtherVerdict(st) == [st EXCEPT !.facts_verified.val = ~st.facts_verified.val]

\* C27: once Validation has written its verdict, whatever it is, the next
\* stage is Synthesis and it is invoked; and with the other verdict Synthesis would make the same
\* gateway call and, for the same response, leave the same final_insight and
\* passes_threshold, and research_signal would return the same.
C27_VerdictGatesNothing ==
    /\ state.facts_verified.some =>
          \/ pc = "synthesis" /\ Last(invoked) = "validation"
          \/ \E i \in DOMAIN invoked : invoked[i] = "synthesis"
    /\ (pc = "synthesis" /\ state.facts_verified.some) =>
          /\ SynthesisCall(OtherVerdict(state)) = SynthesisCall(state)
          /\ \A t \in SynthesisTexts :
                /\ SynthesisUpdate(OtherVerdict(state), t).final_insight
                       = SynthesisUpdate(state, t).final_insight
                /\ SynthesisUpdate(OtherVerdict(state), t).passes_threshold
                       = SynthesisUpdate(state, t).passes_threshold
                /\ ResearchSignalResult("end",
                                        SynthesisUpdate(OtherVerdict(state), t))
                       = ResearchSignalResult("end", SynthesisUpdate(state, t))

\* C27, witness: research_signal has returned an insight for a record whose
\* facts Validation did not verify.
C27_Witness ==
    /\ pc = "returned"
    /\ state.facts_verified.some /\ ~state.facts_verified.val
    /\ ret.some

\* `part` occurs in `whole` as a run of consecutive tokens.
Infix(part, whole) ==
    \E i \in 0 .. Len(whole) - Len(part) :
        SubSeq(whole, i + 1, i + Len(part)) = part

\* The gateway calls of DeepResearch during the run at hand.
DeepCalls == CallsBy({"level1", "level2", "level3", "level4"})

LevelOrder == <<"level1", "level2", "level3", "level4">>

\* C29: the gateway calls of DeepResearch go to the deep tier and are those of
\* level 1, 2, 3, 4 in this order, each issued after the one before it has
\* returned; the request of level 4 contains the outputs of levels 1-3; and
\* once DeepResearch has returned, it has made exactly four calls and the
\* record holds their four outputs as the gateway gave them.
C29_FourDeepCallsInOrder ==
    /\ Len(DeepCalls) <= 4
    /\ \A i \in DOMAIN DeepCalls :
          /\ DeepCalls[i].tier = "deep"
          /\ DeepCalls[i].by = LevelOrder[i]
          /\ \A j \in 1 .. i - 1 : DeepCalls[j].returned
    /\ Len(DeepCalls) = 4 =>
          \A j \in 1 .. 3 : Infix(DeepCalls[j].text, DeepCalls[4].messages)
    /\ (calls # << >> /\ state.level4_synthesis.some) =>
          /\ Len(DeepCalls) = 4
          /\ DeepCalls[4].returned
          /\ state.level1_context = Some(DeepCalls[1].text)
          /\ state.level2_historical = Some(DeepCalls[2].text)
          /\ state.level3_fundamentals = Some(DeepCalls[3].text)
          /\ state.level4_synthesis = Some(DeepCalls[4].text)

\* C29, witness: DeepResearch has just returned after its four calls.
C29_Witness ==
    /\ pc = "context"
    /\ Len(DeepCalls) = 4
    /\ Last(calls).by = "level4" /\ Last(calls).returned
    /\ Last(state.research_path) = "deep_research"

\* C30: in a daily run a predict_quality call is made only after train has
\* returned (trained, or skipped with False), and from the first
\* predict_quality call on no step trains: the ranker and what train left
\* stay as they are.
C30_TrainThenPredict ==
    [][/\ post'.k > post.k =>
             post.train.called /\ post.train.result \in {"true", "false"}
       /\ (post'.k > post.k \/ post.k > 0) =>
             post'.ranker = post.ranker /\ post'.train = post.train]_vars

\* C30, witness: two insights have been scored by a ranker that train has
\* trained.
C30_Witness ==
    /\ post.phase = "trained"
    /\ post.k = 2
    /\ post.train.called /\ post.train.result = "true"
    /\ post.ranker.is_trained
    /\ \A i \in 1 .. 2 : post.items[i].predicted_quality.some

-----------------------------------------------------------------------------
(* The ranker: what it learns from and what it looks at *)

\* The feedback rows that have a rating and an insight, by their position.
Rated ==
    {i \in DOMAIN post.feedback :
        /\ post.feedback[i].star_rating # 0
        /\ post.feedback[i].insight_id \in InsightIds}

\* C31: a call of train that builds its training set builds it with one
\* sample per feedback row with a rating and an insight, several for an
\* insight with several such rows, and the label of a sample is 1 exactly
\* when its rating is 4 or more.
C31_SamplePerRatedFeedback ==
    [][(post.phase = "feedback" /\ post'.feedback = post.feedback
        /\ post'.y # << >>) =>
          /\ Len(post'.y) = Cardinality(Rated)
          /\ Len(post'.training_data) = Cardinality(Rated)
          /\ \A id \in InsightIds :
                Cardinality({i \in DOMAIN post'.training_data :
                                post'.training_data[i].insight_id = id})
                    = Cardinality({i \in Rated :
                                      post.feedback[i].insight_id = id})
          /\ \A i \in DOMAIN post'.y :
                /\ post'.y[i] = 1 <=> post'.training_data[i].star_rating >= 4
                /\ post'.y[i] \in {0, 1}]_vars

\* C31, witness: one insight with a feedback row rated 4 and one rated 3 has
\* given two samples, labelled 1 and 0.
C31_Witness ==
    /\ post.phase = "feedback"
    /\ post.train.called
    /\ Len(post.y) = 2
    /\ \A i \in 1 .. 2 : post.training_data[i].insight_id = 1
    /\ post.training_data[1].star_rating = 4 /\ post.y[1] = 1
    /\ post.training_data[2].star_rating = 3 /\ post.y[2] = 0

\* C32: the priority feature of an insight research_signal returned is the
\* priority of the signal it was made from.
C32_PriorityFeatureOfSignal ==
    (pc = "returned" /\ ret.some) =>
        ExtractFeatures(ret.val).signal_priority = signals[idx].priority

-----------------------------------------------------------------------------
(* What a run returns and what a daily run keeps *)

\* Synthesis succeeded in the run with outcome o: the path ends with its mark.
Succeeded(o) == o.path # << >> /\ Last(o.path) = "synthesis"

\* C33: research_signal returns an insight exactly when Synthesis succeeded
\* with an interestingness_score of 7.0 or more, the run's record holding that
\* insight; and every insight the daily run has collected, those it stores
\* among them, has a score of 7.0 or more and was returned by such a run.
C33_InsightIffSynthesisAndScore ==
    /\ \A i \in DOMAIN outcomes :
          /\ outcomes[i].ret.some =>
                /\ ~outcomes[i].raised
                /\ Succeeded(outcomes[i])
                /\ outcomes[i].ret.val.interestingness_score.kind = "float"
                /\ outcomes[i].ret.val.interestingness_score.n >= Threshold
    /\ pc = "returned" =>
          (ret.some <=>
              /\ Succeeded(outcomes[idx])
              /\ state.final_insight.some
              /\ state.final_insight.val.interestingness_score.n >= Threshold)
    /\ pc = "returned" /\ ret.some => ret.val = state.final_insight.val
    /\ \A k \in DOMAIN insights :
          /\ insights[k].interestingness_score.n >= Threshold
          /\ \E i \in DOMAIN outcomes :
                /\ outcomes[i].ret = Some(insights[k])
                /\ Succeeded(outcomes[i])

\* C33, witness: of two runs in which Synthesis succeeded, one scored below
\* 7.0 and returned nothing, the other returned its insight, now collected.
C33_Witness ==
    /\ Len(outcomes) = 2
    /\ Succeeded(outcomes[1]) /\ ~outcomes[1].ret.some
    /\ Succeeded(outcomes[2]) /\ outcomes[2].ret.some
    /\ Len(insights) = 1

\* The entries of a path.
Entries(path) == {path[i] : i \in DOMAIN path}

\* C34: in a run of the engine DeepResearch is entered only with a record
\* that is interesting, is_interesting is what Discovery left, and the skip
\* marker is in no research_path, that of the run at hand or of a run that
\* has ended.
C34_SkipBranchNeverTaken ==
    /\ "deep_research_skipped" \notin Entries(state.research_path)
    /\ \A i \in DOMAIN outcomes :
          "deep_research_skipped" \notin Entries(outcomes[i].path)
    /\ (pc = "deep_research" \/ "deep_research" \in Entries(invoked)) =>
          state.is_interesting
    /\ state.initial_assessment.some =>
          state.is_interesting = ParseInteresting(state.initial_assessment.val)

\* C34, witness: both edges after Discovery have been taken: one run ended
\* after Discovery with a record that is not interesting, and the run at hand
\* has left DeepResearch behind.
C34_Witness ==
    /\ Len(outcomes) = 1
    /\ outcomes[1].path = <<"discovery">>
    /\ ~outcomes[1].raised
    /\ state.is_interesting
    /\ Last(invoked) = "deep_research"
    /\ pc = "context"

-----------------------------------------------------------------------------
(* The gateway: the cache backend, termination, and the cache key *)

\* The requests of a call by tier.
RequestsTo(tier) == SelectSeq(gw.log, LAMBDA e : e.tier = tier)

\* C35: a call during which Redis fails behaves as one that finds nothing in
\* the cache: it issues an upstream request, returns the answer of the first
\* request that succeeds, and raises only if every request failed.
C35_CacheFailureIsAMiss ==
    (Done /\ gw.use_cache /\ ~gw.up) =>
        /\ gw.log # << >>
        /\ \A i \in 1 .. Len(gw.log) - 1 : ~gw.log[i].ok
        /\ IF Last(gw.log).ok
           THEN gw.ret = Ok(Last(gw.log).text)
           ELSE gw.ret = Raise

\* C35, witness: Redis held a text under the key of the request and failed;
\* the call returned what the upstream answered.
C35_Witness ==
    /\ Done /\ gw.use_cache /\ ~gw.up
    /\ Truthy(gw.held)
    /\ gw.ret.kind = "ok"
    /\ Len(gw.log) = 1

\* Every request the call issued failed.
AllFailed == gw.log # << >> /\ \A i \in DOMAIN gw.log : ~gw.log[i].ok

\* The key under which the fallback call_deepseek of a call looks.
FallbackKey == GenerateCacheKey(DeepseekModel, gw.messages, gw.temperature)

\* The fallback of the call found a text in the cache.
FallbackHit ==
    /\ gw.use_cache /\ gw.up
    /\ FallbackKey \in DOMAIN cache
    /\ JsonLoads(cache[FallbackKey].data) # << >>

C37_UncachedCallLeavesCache ==
    [][(gw.phase = "pending" /\ ~gw.use_cache) =>
          /\ cache' = cache
          /\ gw'.log # << >>
          /\ gw'.log[1].tier = gw.tier]_vars

\* C37, witness: a call with use_cache = false has issued a request although
\* Redis, answering, held a text under the key of the request.
C37_Witness ==
    /\ Done /\ ~gw.use_cache /\ gw.up
    /\ Truthy(gw.held)
    /\ gw.log # << >>
    /\ OwnKey(gw) \in DOMAIN cache

\* C38 as stated: a deep-tier call that repeats the request of the
\* successful call just before it but for max_tokens, both with caching
\* enabled and a working cache, is answered from the cache, with the text
\* held under the one key of the two requests and with no upstream request.
C38_OtherMaxTokensSameAnswer ==
    (Done /\ gw.tier = "deep" /\ gw.repeat /\ gw.other_max_tokens /\ gw.up) =>
        /\ gw.held.some
        /\ gw.ret = Ok(gw.held.val)
        /\ gw.log = << >>

====
